---- MODULE Spec2Model ----
(***************************************************************************)
(* CPM scheduling kernel and scenario view of the Gantt viewer             *)
(* (src/app/page.tsx).                                                     *)
(*                                                                         *)
(* Time.  Instants are integers counted in half days, so DAY_MS = 2 and a  *)
(* calendar date (the ISO string "YYYY-MM-DD" of the source) is its day    *)
(* number d, parsed to the instant d * DAY_MS and printed back by          *)
(* flooring.  Quantities the source keeps in days and multiplies by DAY_MS *)
(* (DurDays, Lag_d, deltaDays) are held already multiplied, i.e. in half   *)
(* days, which keeps fractional durations such as 0.5 d representable.     *)
(* Floats (TotalFloat_d, FreeFloat_d) are whole days, as in the source.    *)
(***************************************************************************)
EXTENDS Integers, Sequences, FiniteSets, TLC

\* ------------------------------------------------------------------------
\* JavaScript values
\* ------------------------------------------------------------------------
DAY_MS == 2

Infinity == 1000000000

\* NaN, undefined and null: every "no value" of the source
NaN == 0 - 1000000000

NumberIsFinite(x) == x # NaN /\ x # Infinity /\ x # 0 - Infinity

MathMax(a, b) == IF a >= b THEN a ELSE b

MathMin(a, b) == IF a <= b THEN a ELSE b

\* Math.round(ms / DAY_MS): nearest integer, halves rounded up
MathRoundDays(ms) == (2 * ms + DAY_MS) \div (2 * DAY_MS)

\* parseDate(d)?.getTime(): a missing date gives undefined
parseDate(d) == IF NumberIsFinite(d) THEN d * DAY_MS ELSE NaN

\* new Date(ms).toISOString().slice(0, 10): the day the instant falls in
toISODate(ms) == IF NumberIsFinite(ms) THEN ms \div DAY_MS ELSE NaN

\* a ?? b
Coalesce(a, b) == IF a # NaN THEN a ELSE b

RelTypes == {"FS", "SS", "FF", "SF"}

normalizeRelType(type) == IF type \in RelTypes THEN type ELSE "FS"

\* impact === null / no scenario
NoImpact == [activityId |-> NaN, deltaDays |-> 0]

deriveDurationDays(row) ==
    IF NumberIsFinite(row.DurDays) /\ row.DurDays >= 0
    THEN row.DurDays
    ELSE IF parseDate(row.ES) # NaN /\ parseDate(row.EF) # NaN
         THEN MathMax(0, MathRoundDays(parseDate(row.EF) - parseDate(row.ES))) * DAY_MS
         ELSE 0

\* ------------------------------------------------------------------------
\* simulateScenario: network construction (lines 200-262)
\* ------------------------------------------------------------------------
RowIndices(rows) == 1..Len(rows)

\* keys of idMap
IdSet(rows) ==
    {rows[i].ActivityID : i \in {j \in RowIndices(rows) : NumberIsFinite(rows[j].ActivityID)}}

\* iteration order of idMap: a key keeps the place of its first insertion
RECURSIVE IdOrderFrom(_, _, _)
IdOrderFrom(rows, i, acc) ==
    IF i > Len(rows) THEN acc
    ELSE LET id == rows[i].ActivityID
         IN  IF NumberIsFinite(id) /\ ~(\E k \in 1..Len(acc) : acc[k] = id)
             THEN IdOrderFrom(rows, i + 1, Append(acc, id))
             ELSE IdOrderFrom(rows, i + 1, acc)

IdOrder(rows) == IdOrderFrom(rows, 1, <<>>)

\* idMap.get(id): the task of the last row that carries the id
LastRowOf(rows, id) ==
    CHOOSE i \in RowIndices(rows) :
        /\ rows[i].ActivityID = id
        /\ \A j \in RowIndices(rows) : rows[j].ActivityID = id => j <= i

MakeTask(row) ==
    [id |-> row.ActivityID,
     duration |-> deriveDurationDays(row),
     baseES |-> parseDate(row.ES),
     baseEF |-> parseDate(row.EF),
     baseLS |-> parseDate(row.LS),
     baseLF |-> parseDate(row.LF),
     ES |-> NaN, EF |-> NaN, LS |-> NaN, LF |-> NaN,
     TotalFloat_d |-> Coalesce(row.TotalFloat_d, 0),
     FreeFloat_d |-> Coalesce(row.FreeFloat_d, 0)]

\* DefaultStart that always takes the current time
DefaultStart_AlwaysNow(rows, now) == now

\* min of the baseline early starts, else Date.now()
DefaultStart(rows, now) ==
    LET known == {parseDate(rows[LastRowOf(rows, id)].ES) : id \in IdSet(rows)} \ {NaN}
    IN  IF known = {} THEN now
        ELSE CHOOSE m \in known : \A x \in known : m <= x

\* lines 233-237: missing baseline dates are filled in
FillBaseline(t, defaultStart) ==
    LET es == IF NumberIsFinite(t.baseES) THEN t.baseES ELSE defaultStart
    IN  [t EXCEPT !.baseES = es,
                  !.baseEF = IF NumberIsFinite(t.baseEF) THEN t.baseEF ELSE es + t.duration]

\* Number(x) || 0
NumberOrZero(x) == IF x = NaN THEN 0 ELSE x

\* FilterEdges that asks only for a known successor
FilterEdges_KnownSuccessor(rows, rels) ==
    LET known == IdSet(rows)
        kept == SelectSeq(rels, LAMBDA r : r.SuccID \in known)
    IN  [i \in 1..Len(kept) |-> [kept[i] EXCEPT !.RelType = normalizeRelType(kept[i].RelType)]]

\* ApplyImpact that forgets the clamp at 0
ApplyImpact_Unclamped(t, impact) ==
    IF NumberIsFinite(impact.activityId) /\ impact.activityId = t.id
    THEN [t EXCEPT !.duration = t.duration + NumberOrZero(impact.deltaDays)]
    ELSE t

\* ApplyImpact with the sign of the delta turned round
ApplyImpact_Subtracts(t, impact) ==
    IF NumberIsFinite(impact.activityId) /\ impact.activityId = t.id
    THEN [t EXCEPT !.duration = MathMax(0, t.duration - NumberOrZero(impact.deltaDays))]
    ELSE t

\* lines 238-244: the impacted activity's duration, clamped at 0
ApplyImpact(t, impact) ==
    IF NumberIsFinite(impact.activityId) /\ impact.activityId = t.id
    THEN [t EXCEPT !.duration = MathMax(0, t.duration + NumberOrZero(impact.deltaDays))]
    ELSE t

\* lines 245-247: edges between known activities only
FilterEdges(rows, rels) ==
    LET known == IdSet(rows)
        kept == SelectSeq(rels, LAMBDA r : r.PredID \in known /\ r.SuccID \in known)
    IN  [i \in 1..Len(kept) |-> [kept[i] EXCEPT !.RelType = normalizeRelType(kept[i].RelType)]]

\* succMap.get(id) || []
Outgoing(edges, id) == SelectSeq(edges, LAMBDA r : r.PredID = id)

InDegree(edges, id) == Cardinality({i \in 1..Len(edges) : edges[i].SuccID = id})

\* Array.prototype.sort with (a, b) => a.baseES - b.baseES: stable
RECURSIVE InsertByBaseES(_, _, _)
InsertByBaseES(task, sorted, id) ==
    IF sorted = <<>> THEN <<id>>
    ELSE IF task[Head(sorted)].baseES <= task[id].baseES
         THEN <<Head(sorted)>> \o InsertByBaseES(task, Tail(sorted), id)
         ELSE <<id>> \o sorted

RECURSIVE SortByBaseES(_, _)
SortByBaseES(task, q) ==
    IF q = <<>> THEN <<>>
    ELSE InsertByBaseES(task, SortByBaseES(task, SubSeq(q, 1, Len(q) - 1)), q[Len(q)])

\* the record of a run that has not been started
IdleSim ==
    [pc |-> "idle", order |-> <<>>, task |-> <<>>, defaultStart |-> 0, edges |-> <<>>,
     indegree |-> <<>>, queue |-> <<>>, pending |-> <<>>, topo |-> <<>>,
     projectFinish |-> 0, reverse |-> <<>>, dequeued |-> <<>>, result |-> <<>>]

SimStart(rows, rels, impact, now) ==
    IF Len(rows) = 0 THEN [IdleSim EXCEPT !.pc = "done", !.result = <<>>]
    ELSE IF IdSet(rows) = {} THEN [IdleSim EXCEPT !.pc = "done", !.result = rows]
    ELSE
      LET ids == IdSet(rows)
          ds == DefaultStart(rows, now)
          task == [id \in ids |->
                     ApplyImpact(FillBaseline(MakeTask(rows[LastRowOf(rows, id)]), ds), impact)]
          edges == FilterEdges(rows, rels)
          indegree == [id \in ids |-> InDegree(edges, id)]
          order == IdOrder(rows)
      IN  [IdleSim EXCEPT
             !.pc = "forward",
             !.order = order,
             !.task = task,
             !.defaultStart = ds,
             !.edges = edges,
             !.indegree = indegree,
             !.queue = SortByBaseES(task, SelectSeq(order, LAMBDA id : indegree[id] = 0)),
             !.pending = [id \in ids |-> NaN],
             !.dequeued = [id \in ids |-> 0]]

\* ------------------------------------------------------------------------
\* simulateScenario: forward pass (lines 264-294)
\* ------------------------------------------------------------------------
\* Needed with FF and SF forgetting the successor's duration
Needed_NoSuccDuration(rel, current, succ) ==
    IF rel.RelType \in {"SS", "SF"} THEN current.ES + rel.Lag_d ELSE current.EF + rel.Lag_d

\* the constraint an edge puts on its successor's early start (lines 276-284)
Needed(rel, current, succ) ==
    IF rel.RelType = "SS" THEN current.ES + rel.Lag_d
    ELSE IF rel.RelType = "FF" THEN current.EF + rel.Lag_d - succ.duration
    ELSE IF rel.RelType = "SF" THEN current.ES + rel.Lag_d - succ.duration
    ELSE current.EF + rel.Lag_d

\* Ready that queues a successor one edge early as well
Ready_OneEarly(deg) == deg <= 1

\* does a successor whose in-degree dropped to deg join the ready queue
Ready(deg) == deg = 0

\* PropagateEdge that records the constraint of the latest edge only
PropagateEdge_LastWins(s, cur, rel) ==
    LET succ == s.task[rel.SuccID]
        needed == Needed(rel, s.task[cur], succ)
        deg == s.indegree[succ.id] - 1
    IN  [s EXCEPT
           !.pending[succ.id] = needed,
           !.indegree[succ.id] = deg,
           !.queue = IF Ready(deg)
                     THEN SortByBaseES(s.task, Append(s.queue, succ.id))
                     ELSE s.queue]

\* one iteration of the loop over the outgoing edges (lines 273-293)
PropagateEdge(s, cur, rel) ==
    LET succ == s.task[rel.SuccID]
        needed == Needed(rel, s.task[cur], succ)
        prev == s.pending[succ.id]
        deg == s.indegree[succ.id] - 1
    IN  [s EXCEPT
           !.pending[succ.id] = IF prev # NaN THEN MathMax(prev, needed) ELSE needed,
           !.indegree[succ.id] = deg,
           !.queue = IF Ready(deg)
                     THEN SortByBaseES(s.task, Append(s.queue, succ.id))
                     ELSE s.queue]

RECURSIVE PropagateAll(_, _, _)
PropagateAll(s, cur, outs) ==
    IF outs = <<>> THEN s
    ELSE PropagateAll(PropagateEdge(s, cur, Head(outs)), cur, Tail(outs))

\* EarlyStart that ignores what the predecessors require
EarlyStart_KeepsBaseline(startReq, base) == base

\* early start of a dequeued activity (lines 267-270)
EarlyStart(startReq, base) ==
    IF NumberIsFinite(startReq) THEN MathMax(startReq, base) ELSE base

\* one iteration of while (queue.length)
ForwardStep(s) ==
    LET cur == Head(s.queue)
        t == s.task[cur]
        start == EarlyStart(s.pending[cur], Coalesce(t.baseES, s.defaultStart))
        s1 == [s EXCEPT
                 !.queue = Tail(s.queue),
                 !.topo = Append(s.topo, cur),
                 !.dequeued[cur] = s.dequeued[cur] + 1,
                 !.task[cur].ES = start,
                 !.task[cur].EF = start + t.duration]
    IN  PropagateAll(s1, cur, Outgoing(s.edges, cur))

\* ------------------------------------------------------------------------
\* simulateScenario: leftovers, order and project finish (lines 295-311)
\* ------------------------------------------------------------------------
\* FallbackTask that starts every leftover activity at the default epoch
FallbackTask_DefaultEpoch(t, defaultStart) ==
    IF NumberIsFinite(t.ES) THEN t
    ELSE [t EXCEPT !.ES = defaultStart, !.EF = defaultStart + t.duration]

\* an activity the queue never reached starts at its own baseline (295-300)
FallbackTask(t, defaultStart) ==
    IF NumberIsFinite(t.ES) THEN t
    ELSE LET es == Coalesce(t.baseES, defaultStart)
         IN  [t EXCEPT !.ES = es, !.EF = es + t.duration]

InSeq(x, seq) == \E i \in 1..Len(seq) : seq[i] = x

TopoOrder(s) == s.topo \o SelectSeq(s.order, LAMBDA id : ~InSeq(id, s.topo))

RECURSIVE ProjectFinishFrom(_, _, _)
ProjectFinishFrom(task, order, max) ==
    IF order = <<>> THEN max
    ELSE LET t == task[Head(order)]
             ef == Coalesce(t.EF, Coalesce(t.baseEF, max))
         IN  ProjectFinishFrom(task, Tail(order), MathMax(max, ef))

Reverse(seq) == [i \in 1..Len(seq) |-> seq[Len(seq) + 1 - i]]

AfterForward(s) ==
    LET task == [id \in DOMAIN s.task |-> FallbackTask(s.task[id], s.defaultStart)]
        topoOrder == TopoOrder(s)
    IN  [s EXCEPT
           !.pc = "backward",
           !.task = task,
           !.projectFinish = ProjectFinishFrom(task, topoOrder, s.defaultStart),
           !.reverse = Reverse(topoOrder)]

\* ------------------------------------------------------------------------
\* simulateScenario: backward pass (lines 312-342)
\* ------------------------------------------------------------------------
SetMin(S) == IF S = {} THEN Infinity ELSE CHOOSE m \in S : \A x \in S : m <= x

\* SuccStart that reads the successor's baseline start, not its early start
SuccStart_Baseline(succ, projectFinish) == Coalesce(succ.baseES, projectFinish)

\* what an outgoing edge reads of its successor (lines 323-329)
SuccStart(succ, projectFinish) == Coalesce(succ.ES, Coalesce(succ.baseES, projectFinish))

SuccFinish(succ) == Coalesce(succ.EF, succ.ES + succ.duration)

EdgeLimit(rel, succ, projectFinish) ==
    IF rel.RelType \in {"FS", "SS"}
    THEN SuccStart(succ, projectFinish) - rel.Lag_d
    ELSE SuccFinish(succ) - rel.Lag_d

\* Math.min over the outgoing edges of the given types, Infinity when none
LimitOver(s, id, types) ==
    SetMin({EdgeLimit(s.edges[i], s.task[s.edges[i].SuccID], s.projectFinish) :
              i \in {j \in 1..Len(s.edges) :
                       s.edges[j].PredID = id /\ s.edges[j].RelType \in types}})

\* LateDates that lowers the late start to the SS/SF limit and keeps the late finish
LateDates_KeepsFinish(s, id) ==
    LET t == s.task[id]
        lfLimit == LimitOver(s, id, {"FS", "FF"})
        lsLimit == LimitOver(s, id, {"SS", "SF"})
        lf0 == IF NumberIsFinite(lfLimit) THEN lfLimit
               ELSE MathMax(Coalesce(t.EF, Coalesce(t.baseEF, s.projectFinish)), s.projectFinish)
        ls0 == lf0 - t.duration
    IN  [LS |-> IF NumberIsFinite(lsLimit) THEN MathMin(ls0, lsLimit) ELSE ls0, LF |-> lf0]

\* LateDates whose default late finish is the activity's own early finish
LateDates_OwnFinish(s, id) ==
    LET t == s.task[id]
        lfLimit == LimitOver(s, id, {"FS", "FF"})
        lsLimit == LimitOver(s, id, {"SS", "SF"})
        lf0 == IF NumberIsFinite(lfLimit) THEN lfLimit
               ELSE Coalesce(t.EF, Coalesce(t.baseEF, s.projectFinish))
        ls0 == lf0 - t.duration
        ls == IF NumberIsFinite(lsLimit) THEN MathMin(ls0, lsLimit) ELSE ls0
        lf == IF NumberIsFinite(lsLimit) THEN ls + t.duration ELSE lf0
    IN  [LS |-> ls, LF |-> lf]

LateDates(s, id) ==
    LET t == s.task[id]
        lfLimit == LimitOver(s, id, {"FS", "FF"})
        lsLimit == LimitOver(s, id, {"SS", "SF"})
        lf0 == IF NumberIsFinite(lfLimit) THEN lfLimit
               ELSE MathMax(Coalesce(t.EF, Coalesce(t.baseEF, s.projectFinish)), s.projectFinish)
        ls0 == lf0 - t.duration
        ls == IF NumberIsFinite(lsLimit) THEN MathMin(ls0, lsLimit) ELSE ls0
        lf == IF NumberIsFinite(lsLimit) THEN ls + t.duration ELSE lf0
    IN  [LS |-> ls, LF |-> lf]

\* one iteration of for (const id of reverse)
BackwardStep(s) ==
    LET id == Head(s.reverse)
        late == LateDates(s, id)
    IN  [s EXCEPT
           !.reverse = Tail(s.reverse),
           !.task[id].LF = late.LF,
           !.task[id].LS = late.LS,
           !.pc = IF Tail(s.reverse) = <<>> THEN "floats" ELSE "backward"]

\* ------------------------------------------------------------------------
\* simulateScenario: floats and the returned rows (lines 343-383)
\* ------------------------------------------------------------------------
\* TotalFloat clamped at zero
TotalFloat_Clamped(t, defaultStart) ==
    MathMax(0, MathRoundDays(Coalesce(t.LS, Coalesce(t.ES, defaultStart)) - Coalesce(t.ES, defaultStart)))

TotalFloat(t, defaultStart) ==
    MathRoundDays(Coalesce(t.LS, Coalesce(t.ES, defaultStart)) - Coalesce(t.ES, defaultStart))

\* FreeFloat reading the successors' early dates without taking the lag off
FreeFloat_IgnoresLag(s, t, totalFloat) ==
    LET into == {s.edges[i] : i \in {j \in 1..Len(s.edges) :
                    s.edges[j].PredID = t.id /\ s.edges[j].RelType \in {"FS", "FF"}}}
        minConstraint == SetMin({IF e.RelType = "FS" THEN s.task[e.SuccID].ES
                                 ELSE s.task[e.SuccID].EF : e \in into})
    IN  IF minConstraint < Infinity
        THEN MathMax(0, MathRoundDays(minConstraint - t.EF))
        ELSE MathMax(0, totalFloat)

\* FreeFloat that lets the SS and SF edges limit it too
FreeFloat_EveryEdge(s, t, totalFloat) ==
    LET minConstraint == LimitOver(s, t.id, {"FS", "FF", "SS", "SF"})
    IN  IF minConstraint < Infinity
        THEN MathMax(0, MathRoundDays(minConstraint - Coalesce(t.EF, t.ES + t.duration)))
        ELSE MathMax(0, totalFloat)

FreeFloat(s, t, totalFloat) ==
    LET minConstraint == LimitOver(s, t.id, {"FS", "FF"})
    IN  IF minConstraint < Infinity
        THEN MathMax(0, MathRoundDays(minConstraint - Coalesce(t.EF, t.ES + t.duration)))
        ELSE MathMax(0, totalFloat)

FloatTask(s, t) ==
    LET tf == TotalFloat(t, s.defaultStart)
    IN  [t EXCEPT !.TotalFloat_d = tf, !.FreeFloat_d = FreeFloat(s, t, tf)]

\* Math.round(days * 100) / 100 of a duration held in instants: the nearest
\* hundredth of a day, in instants again
RoundHundredths(d) == (((2 * d * 100 + DAY_MS) \div (2 * DAY_MS)) * DAY_MS) \div 100

\* rows.map(...) of lines 365-383
ResultRow(row, task) ==
    IF ~NumberIsFinite(row.ActivityID) THEN row
    ELSE LET t == task[row.ActivityID]
         IN  [row EXCEPT
                !.ES = Coalesce(toISODate(t.ES), row.ES),
                !.EF = Coalesce(toISODate(t.EF), row.EF),
                !.LS = Coalesce(toISODate(Coalesce(t.LS, t.baseLS)), row.LS),
                !.LF = Coalesce(toISODate(Coalesce(t.LF, t.baseLF)), row.LF),
                !.DurDays = RoundHundredths(t.duration),
                !.TotalFloat_d = Coalesce(t.TotalFloat_d, row.TotalFloat_d),
                !.FreeFloat_d = Coalesce(t.FreeFloat_d, row.FreeFloat_d)]

Finish(s, rows) ==
    LET task == [id \in DOMAIN s.task |-> FloatTask(s, s.task[id])]
    IN  [s EXCEPT
           !.pc = "done",
           !.task = task,
           !.result = [i \in 1..Len(rows) |-> ResultRow(rows[i], task)]]

\* the whole call, as the page uses it
SimStep(s, rows) ==
    IF s.pc = "forward" THEN (IF s.queue # <<>> THEN ForwardStep(s) ELSE AfterForward(s))
    ELSE IF s.pc = "backward" THEN BackwardStep(s)
    ELSE Finish(s, rows)

RECURSIVE SimRun(_, _)
SimRun(s, rows) == IF s.pc = "done" THEN s ELSE SimRun(SimStep(s, rows), rows)

simulateScenario(rows, rels, impact, now) == SimRun(SimStart(rows, rels, impact, now), rows).result

\* ------------------------------------------------------------------------
\* State
\* ------------------------------------------------------------------------
VARIABLES
    rows,             \* the activity rows: the page's baseline, simulateScenario's input
    rels,             \* the edge list: the page's, simulateScenario's input
    impact,           \* the impact given to simulateScenario, NoImpact for none
    now,              \* what Date.now() returns
    sim,              \* the locals of the running call
    simRows,          \* the simulated rows on show, null for none
    scenarioLibrary,  \* the saved scenarios
    activeScenario,   \* the scenario on show, null for none
    scenarioStatus,   \* the status line
    isSimulating,     \* a run is awaited
    scenarioActivity, \* the form: the selected activity
    scenarioMode,     \* the form: "delay" or "accelerate"
    scenarioDays,     \* the form: the size of the impact
    timers,           \* the runs waiting for their setTimeout, each with the rows
                      \* and edges of the render that started it
    mapped,           \* the sheet rows given to buildLinksFromPredecessors
    build,            \* the locals of the running buildLinksFromPredecessors
    items,            \* the items given to computeDomain
    dom               \* what computeDomain returned, and the last use of its scaleX

call == <<impact, sim>>

page == <<simRows, scenarioLibrary, activeScenario, scenarioStatus, isSimulating,
          scenarioActivity, scenarioMode, scenarioDays, timers>>

links == <<mapped, build>>

chart == <<items, dom>>

vars == <<rows, rels, now, call, page, links, chart>>

\* null, a value that is not null, and the value
null == {}

Some(v) == {v}

The(opt) == CHOOSE v \in opt : TRUE

\* the select's empty string: no activity chosen
NoActivity == NaN

\* useState(...) of lines 928-947, rows and rels apart; 10 days in the form
PageStart ==
    /\ simRows = null
    /\ scenarioLibrary = <<>>
    /\ activeScenario = null
    /\ scenarioStatus = ""
    /\ isSimulating = FALSE
    /\ scenarioActivity = NoActivity
    /\ scenarioMode = "delay"
    /\ scenarioDays = 10 * DAY_MS
    /\ timers = {}

\* ------------------------------------------------------------------------
\* Bounds of the inputs
\* ------------------------------------------------------------------------
\* durations run over 0..MaxDur half days
MaxDur == 1

\* the magnitude of a lag, in half days
MaxLag == 1

TaskIds == {1, 2, 3}

\* baseline early starts (day numbers); NaN is a row without one
StartDays == {0, 1}

\* every row with a baseline start, none, or all but one
StartProfiles ==
    [TaskIds -> StartDays] \cup {[i \in TaskIds |-> NaN]}
        \cup {[i \in TaskIds |-> IF i = k THEN NaN ELSE d] : k \in TaskIds, d \in StartDays}

Row(id, dur, es) ==
    [ActivityID |-> id, DurDays |-> dur, ES |-> es, EF |-> NaN, LS |-> NaN, LF |-> NaN,
     TotalFloat_d |-> NaN, FreeFloat_d |-> NaN]

Rel(p, q, type, lag) == [PredID |-> p, SuccID |-> q, RelType |-> type, Lag_d |-> lag]

\* a lead, no lag and a delay
Lags == {0 - MaxLag, 0, MaxLag}

EdgesOn(pair) == {Rel(pair[1], pair[2], ty, lag) : ty \in RelTypes, lag \in Lags}

\* the shapes of a network of at most two edges on three activities: one edge,
\* a self-loop, a chain, a fork, a join, a two-cycle, a duplicate edge, and a
\* self-loop on either end of an edge
Shapes ==
    {<<>>, << <<1, 2>> >>, << <<2, 2>> >>,
     << <<1, 2>>, <<2, 3>> >>, << <<1, 2>>, <<1, 3>> >>, << <<1, 3>>, <<2, 3>> >>,
     << <<1, 2>>, <<2, 1>> >>, << <<1, 2>>, <<1, 2>> >>,
     << <<1, 1>>, <<1, 2>> >>, << <<2, 2>>, <<1, 2>> >>}

EdgeListsOn(shape) ==
    {rl \in [1..Len(shape) -> UNION {EdgesOn(shape[k]) : k \in 1..Len(shape)}] :
        \A k \in 1..Len(shape) : rl[k].PredID = shape[k][1] /\ rl[k].SuccID = shape[k][2]}

EdgeLists == UNION {EdgeListsOn(shape) : shape \in Shapes}

\* one delay and one acceleration of each activity
Deltas == {0 - DAY_MS, DAY_MS}

Impacts == [activityId : TaskIds, deltaDays : Deltas]

\* instants Date.now() may return: not aligned to midnight in general
Clock == {2 * DAY_MS + 1, 3 * DAY_MS}

\* ------------------------------------------------------------------------
\* Relationship parsing (lines 410-462).  A string is the sequence of its
\* characters.
\* ------------------------------------------------------------------------
DigitChars == <<"0", "1", "2", "3", "4", "5", "6", "7", "8", "9">>

\* c >= '0' && c <= '9'
IsDigit(c) == \E i \in 1..Len(DigitChars) : DigitChars[i] = c

DigitValue(c) == (CHOOSE i \in 1..Len(DigitChars) : DigitChars[i] = c) - 1

\* what String.prototype.trim removes, as far as the inputs go
WhiteSpace == {" ", "\t"}

LowerCase == <<"a", "b", "c", "d", "e", "f", "g", "h", "i", "j", "k", "l", "m",
               "n", "o", "p", "q", "r", "s", "t", "u", "v", "w", "x", "y", "z">>

UpperCase == <<"A", "B", "C", "D", "E", "F", "G", "H", "I", "J", "K", "L", "M",
               "N", "O", "P", "Q", "R", "S", "T", "U", "V", "W", "X", "Y", "Z">>

\* toUpperCase that leaves the letters as they are
toUpperCase_Identity(str) == str

toUpperCase(str) ==
    [i \in 1..Len(str) |->
        IF \E k \in 1..Len(LowerCase) : LowerCase[k] = str[i]
        THEN UpperCase[CHOOSE k \in 1..Len(LowerCase) : LowerCase[k] = str[i]]
        ELSE str[i]]

\* str.slice(from) and str.slice(from, to), positions counted from 0
SliceFrom(str, from) == SubSeq(str, from + 1, Len(str))

Slice(str, from, to) == SubSeq(str, from + 1, MathMin(to, Len(str)))

trim(str) ==
    LET inked == {i \in 1..Len(str) : str[i] \notin WhiteSpace}
    IN  IF inked = {} THEN <<>>
        ELSE SubSeq(str, CHOOSE i \in inked : \A j \in inked : i <= j,
                         CHOOSE i \in inked : \A j \in inked : j <= i)

\* str.indexOf(c): the first position, counted from 0, or -1
IndexOf(str, c) ==
    LET hits == {i \in 1..Len(str) : str[i] = c}
    IN  IF hits = {} THEN 0 - 1 ELSE (CHOOSE i \in hits : \A j \in hits : i <= j) - 1

\* the position after the run of characters of the set that starts at from
RECURSIVE SkipWhile(_, _, _)
SkipWhile(str, from, chars) ==
    IF from < Len(str) /\ str[from + 1] \in chars THEN SkipWhile(str, from + 1, chars) ELSE from

\* Number(s) of a string of digits; Number("") is 0
RECURSIVE NumberOfDigits(_)
NumberOfDigits(str) ==
    IF str = <<>> THEN 0
    ELSE 10 * NumberOfDigits(SubSeq(str, 1, Len(str) - 1)) + DigitValue(str[Len(str)])

DigitSet == {DigitChars[i] : i \in 1..Len(DigitChars)}

\* the entries of ["FS","SS","FF","SF"]
TypeCodes ==
    {[text |-> <<"F", "S">>, type |-> "FS"], [text |-> <<"S", "S">>, type |-> "SS"],
     [text |-> <<"F", "F">>, type |-> "FF"], [text |-> <<"S", "F">>, type |-> "SF"]}

\* lines 411-441
parseLinkToken(token, succId) ==
    LET t == trim(token)
        i == SkipWhile(t, 0, DigitSet)
        id == NumberOfDigits(Slice(t, 0, i))
        rest0 == trim(SliceFrom(t, i))
        maybeType == toUpperCase(Slice(rest0, 0, 2))
        typed == \E c \in TypeCodes : c.text = maybeType
        RelType == IF typed THEN (CHOOSE c \in TypeCodes : c.text = maybeType).type ELSE "FS"
        rest == IF typed THEN trim(SliceFrom(rest0, 2)) ELSE rest0
        plus == IndexOf(rest, "+")
        minus == IndexOf(rest, "-")
        pos == IF plus # 0 - 1 /\ (minus = 0 - 1 \/ plus < minus) THEN plus
               ELSE IF minus # 0 - 1 THEN minus ELSE 0 - 1
        sign == IF plus # 0 - 1 /\ (minus = 0 - 1 \/ plus < minus) THEN 1
                ELSE IF minus # 0 - 1 THEN 0 - 1 ELSE 1
        j == SkipWhile(rest, pos + 1, {" "})
        numStr == Slice(rest, j, SkipWhile(rest, j, DigitSet))
        Lag_d == IF pos # 0 - 1 /\ numStr # <<>> THEN sign * NumberOfDigits(numStr) * DAY_MS ELSE 0
    IN  IF t = <<>> THEN null
        ELSE IF ~NumberIsFinite(id) THEN null
        ELSE Some(Rel(id, succId, RelType, Lag_d))

\* predStr.split(/[,;]+/): the pieces between runs of separators
RECURSIVE Split(_)
Split(str) ==
    LET seps == {i \in 1..Len(str) : str[i] \in {",", ";"}}
    IN  IF seps = {} THEN <<str>>
        ELSE LET k == CHOOSE i \in seps : \A j \in seps : i <= j
             IN  <<SubSeq(str, 1, k - 1)>> \o Split(SliceFrom(str, SkipWhile(str, k, {",", ";"})))

\* the locals of buildLinksFromPredecessors before the call
IdleBuild ==
    [pc |-> "idle", r |-> 1, succ |-> NaN, parts |-> <<>>, piece |-> <<>>, edge |-> null,
     edges |-> <<>>]

LinksStart == mapped = <<>> /\ build = IdleBuild

\* line 443-444
CallBuild ==
    /\ build.pc = "idle"
    /\ build' = [build EXCEPT !.pc = "rows"]
    /\ UNCHANGED <<rows, rels, now, call, page, mapped, chart>>

\* lines 445-455: the next sheet row, skipped without a finite id or a
\* predecessor string, else split
BuildRow ==
    /\ build.pc = "rows" /\ build.r <= Len(mapped)
    /\ LET row == mapped[build.r]
       IN  build' = IF ~NumberIsFinite(row.ActivityID) \/ row.Predecessors = <<>>
                    THEN [build EXCEPT !.r = build.r + 1]
                    ELSE [build EXCEPT !.pc = "parts", !.succ = row.ActivityID,
                                       !.parts = Split(row.Predecessors)]
    /\ UNCHANGED <<rows, rels, now, call, page, mapped, chart>>

\* lines 456-459: one piece
BuildPart ==
    /\ build.pc = "parts" /\ build.parts # <<>>
    /\ LET edge == parseLinkToken(Head(build.parts), build.succ)
       IN  build' = [build EXCEPT
                        !.parts = Tail(build.parts),
                        !.piece = Head(build.parts),
                        !.edge = edge,
                        !.edges = IF edge # null THEN Append(build.edges, The(edge))
                                  ELSE build.edges]
    /\ UNCHANGED <<rows, rels, now, call, page, mapped, chart>>

\* line 459: the pieces of the row are done
BuildRowEnd ==
    /\ build.pc = "parts" /\ build.parts = <<>>
    /\ build' = [build EXCEPT !.pc = "rows", !.r = build.r + 1]
    /\ UNCHANGED <<rows, rels, now, call, page, mapped, chart>>

\* line 461
BuildReturn ==
    /\ build.pc = "rows" /\ build.r > Len(mapped)
    /\ build' = [build EXCEPT !.pc = "done"]
    /\ UNCHANGED <<rows, rels, now, call, page, mapped, chart>>

NextLinks == CallBuild \/ BuildRow \/ BuildPart \/ BuildRowEnd \/ BuildReturn

\* ------------------------------------------------------------------------
\* computeDomain (lines 387-404).  A Date is its instant, NaN for an invalid
\* one; a number that is a quotient is kept as numerator and denominator.
\* ------------------------------------------------------------------------
\* 1000 * 60 * 60 * 24 * 7
Pad == 7 * DAY_MS

\* the left edge of the axis (line 400)
AxisLeft == 160

\* Math.min(...xs) and Math.max(...xs) of finite instants and the Infinity
\* that stands in for a date that does not parse
MinOfAll(xs) ==
    LET known == {xs[i] : i \in 1..Len(xs)} \ {Infinity}
    IN  IF known = {} THEN Infinity ELSE CHOOSE m \in known : \A x \in known : m <= x

MaxOfAll(xs) ==
    LET known == {xs[i] : i \in 1..Len(xs)} \ {0 - Infinity}
    IN  IF known = {} THEN 0 - Infinity ELSE CHOOSE m \in known : \A x \in known : m >= x

\* new Date(ms).getTime()
DateTime(ms) == IF NumberIsFinite(ms) THEN ms ELSE NaN

\* a - b and a + b of numbers that may be NaN
Minus(a, b) == IF a = NaN \/ b = NaN THEN NaN ELSE a - b

Plus(a, b) == IF a = NaN \/ b = NaN THEN NaN ELSE a + b

\* what is returned without the function: empty tells which scaleX it is
IdleDomain ==
    [pc |-> "idle", empty |-> FALSE, min |-> NaN, max |-> NaN, totalMs |-> NaN, days |-> NaN,
     date |-> NaN, width |-> NaN, x |-> [num |-> NaN, den |-> 1]]

\* computeDomain with the padding taken off both ends
computeDomain_PadsInward(list) ==
    IF list = null \/ Len(The(list)) = 0
    THEN [IdleDomain EXCEPT !.pc = "returned", !.empty = TRUE, !.days = 0]
    ELSE LET its == The(list)
             min == DateTime(MinOfAll([i \in 1..Len(its) |->
                                         Coalesce(parseDate(its[i].ES), Infinity)]))
             max == DateTime(MaxOfAll([i \in 1..Len(its) |->
                                         Coalesce(parseDate(its[i].EF), 0 - Infinity)]))
             minP == Plus(min, Pad)
             maxP == Minus(max, Pad)
             span == Minus(maxP, minP)
         IN  [IdleDomain EXCEPT
                !.pc = "returned",
                !.min = minP,
                !.max = maxP,
                !.totalMs = IF span = NaN THEN NaN ELSE MathMax(1, span),
                !.days = IF span = NaN THEN NaN ELSE MathRoundDays(span)]

\* lines 387-397 and 402-403
computeDomain(list) ==
    IF list = null \/ Len(The(list)) = 0
    THEN [IdleDomain EXCEPT !.pc = "returned", !.empty = TRUE, !.days = 0]
    ELSE LET its == The(list)
             min == DateTime(MinOfAll([i \in 1..Len(its) |->
                                         Coalesce(parseDate(its[i].ES), Infinity)]))
             max == DateTime(MaxOfAll([i \in 1..Len(its) |->
                                         Coalesce(parseDate(its[i].EF), 0 - Infinity)]))
             minP == Minus(min, Pad)
             maxP == Plus(max, Pad)
             span == Minus(maxP, minP)
         IN  [IdleDomain EXCEPT
                !.pc = "returned",
                !.min = minP,
                !.max = maxP,
                !.totalMs = IF span = NaN THEN NaN ELSE MathMax(1, span),
                !.days = IF span = NaN THEN NaN ELSE MathRoundDays(span)]

\* lines 389 and 398-401: scaleX at the instant t of its date argument,
\* undefined for a date that does not parse
scaleX(d, t, width) ==
    IF d.empty THEN [num |-> 0, den |-> 1]
    ELSE LET at == Coalesce(t, d.min)
         IN  IF at = NaN \/ d.totalMs = NaN THEN [num |-> NaN, den |-> 1]
             ELSE [num |-> (at - d.min) * (width - AxisLeft) + AxisLeft * d.totalMs,
                   den |-> d.totalMs]

\* the dates of the items and of the calls of scaleX, as day numbers
ChartDays == {NaN, 0, 3, 14, 20}

Item(es, ef) == [ES |-> es, EF |-> ef]

\* no list, or a list of up to two items
ItemLists ==
    {null} \cup {Some(<<>>)}
        \cup {Some(<<Item(a, b)>>) : a \in ChartDays, b \in ChartDays}
        \cup {Some(<<Item(a, b), Item(c, e)>>) :
                 a \in ChartDays, b \in ChartDays, c \in ChartDays, e \in ChartDays}

Widths == {100, 160, 800}

ChartStart == items = null /\ dom = IdleDomain

CallDomain ==
    /\ dom.pc = "idle"
    /\ dom' = computeDomain(items)
    /\ UNCHANGED <<rows, rels, now, call, page, links, items>>

\* scaleX(date, width) with a date string, or with the Date min or max
CallScaleX ==
    /\ dom.pc = "returned"
    /\ \E t \in {parseDate(day) : day \in ChartDays} \cup {dom.min, dom.max}, width \in Widths :
          dom' = [dom EXCEPT !.date = t, !.width = width, !.x = scaleX(dom, t, width)]
    /\ UNCHANGED <<rows, rels, now, call, page, links, items>>

NextChart == CallDomain \/ CallScaleX

\* ------------------------------------------------------------------------
\* Actions: one call of simulateScenario, statement group by statement group
\* ------------------------------------------------------------------------
\* Date.now() is read only when no row has a baseline early start
ClockFor(es) == IF \A i \in TaskIds : es[i] = NaN THEN Clock ELSE {2 * DAY_MS + 1}

Init ==
    /\ \E dur \in [TaskIds -> 0..MaxDur], es \in StartProfiles :
          /\ rows = [i \in TaskIds |-> Row(i, dur[i], es[i])]
          /\ now \in ClockFor(es)
          /\ \/ impact = NoImpact
             \/ impact \in Impacts /\ es = [i \in TaskIds |-> 0]
    /\ rels \in EdgeLists
    /\ sim = IdleSim
    /\ PageStart
    /\ LinksStart
    /\ ChartStart

\* lines 200-262: the tasks, the edges, the in-degrees and the first queue
Call ==
    /\ sim.pc = "idle"
    /\ sim' = SimStart(rows, rels, impact, now)
    /\ UNCHANGED <<rows, rels, impact, now, page, links, chart>>

\* lines 264-294: one iteration of the forward loop
Dequeue ==
    /\ sim.pc = "forward"
    /\ sim.queue # <<>>
    /\ sim' = ForwardStep(sim)
    /\ UNCHANGED <<rows, rels, impact, now, page, links, chart>>

\* lines 295-311: the queue is empty
Drain ==
    /\ sim.pc = "forward"
    /\ sim.queue = <<>>
    /\ sim' = AfterForward(sim)
    /\ UNCHANGED <<rows, rels, impact, now, page, links, chart>>

\* lines 312-342: one iteration of the backward loop
Backward ==
    /\ sim.pc = "backward"
    /\ sim' = BackwardStep(sim)
    /\ UNCHANGED <<rows, rels, impact, now, page, links, chart>>

\* lines 343-383: floats and the returned rows
Return ==
    /\ sim.pc = "floats"
    /\ sim' = Finish(sim, rows)
    /\ UNCHANGED <<rows, rels, impact, now, page, links, chart>>

Next == Call \/ Dequeue \/ Drain \/ Backward \/ Return

Spec == Init /\ [][Next]_vars

\* ------------------------------------------------------------------------
\* The two-activity networks: A, then B after it
\* ------------------------------------------------------------------------
\* A of 1 to 5 days from day 0, B of 1 to 3 days with or without a baseline
\* start, one edge of any type without lag, A delayed by up to 4 days
InitPair ==
    /\ \E a \in 1..5, b \in 1..3, es \in {NaN, 0} :
          rows = <<Row(1, a * DAY_MS, 0), Row(2, b * DAY_MS, es)>>
    /\ \E type \in RelTypes : rels = <<Rel(1, 2, type, 0)>>
    /\ impact \in {NoImpact} \cup {[activityId |-> 1, deltaDays |-> k * DAY_MS] : k \in 1..4}
    /\ now \in Clock
    /\ sim = IdleSim
    /\ PageStart
    /\ LinksStart
    /\ ChartStart

SpecPair == InitPair /\ [][Next]_vars

\* ------------------------------------------------------------------------
\* Networks with edges to and from ids no row has, impacts on such ids
\* ------------------------------------------------------------------------
\* ids that are the id of no row
UnknownIds == {9}

DanglingEdges ==
    UNION {{Rel(u, 2, type, MaxLag), Rel(1, u, type, MaxLag), Rel(u, u, type, MaxLag)} :
              u \in UnknownIds, type \in {"FS", "SF"}}

\* nothing, or one dangling edge
DanglingLists == {<<>>} \cup {<<e>> : e \in DanglingEdges}

\* no edge, or one edge from activity 1 to activity 2
PlainLists == {<<>>} \cup EdgeListsOn(<< <<1, 2>> >>)

LooseImpacts == [activityId : {1, 2} \cup UnknownIds, deltaDays : Deltas]

InitLoose ==
    /\ \E dur \in [TaskIds -> 0..MaxDur], es \in {0, NaN} :
          rows = [i \in TaskIds |-> Row(i, dur[i], es)]
    /\ now = 2 * DAY_MS + 1
    /\ \/ /\ impact = NoImpact
          /\ \E front \in DanglingLists, plain \in PlainLists, back \in DanglingLists :
                rels = front \o plain \o back
       \/ /\ impact \in LooseImpacts
          /\ rels \in PlainLists
    /\ sim = IdleSim
    /\ PageStart
    /\ LinksStart
    /\ ChartStart

SpecLoose == InitLoose /\ [][Next]_vars

\* ------------------------------------------------------------------------
\* Networks of activities that last nothing or MaxDur
\* ------------------------------------------------------------------------
\* all rows start on day 0, none has a start, one starts a day later than
\* the others, one has no start
NetProfiles ==
    {[i \in TaskIds |-> 0], [i \in TaskIds |-> NaN]}
        \cup {[i \in TaskIds |-> IF i = k THEN 1 ELSE 0] : k \in TaskIds}
        \cup {[i \in TaskIds |-> IF i = k THEN NaN ELSE 1] : k \in TaskIds}

InitNet ==
    /\ \E dur \in [TaskIds -> {0, MaxDur}], es \in NetProfiles :
          /\ rows = [i \in TaskIds |-> Row(i, dur[i], es[i])]
          /\ now \in ClockFor(es)
          /\ \/ impact = NoImpact
             \/ impact \in Impacts /\ es = [i \in TaskIds |-> 0]
    /\ rels \in EdgeLists
    /\ sim = IdleSim
    /\ PageStart
    /\ LinksStart
    /\ ChartStart

SpecNet == InitNet /\ [][Next]_vars

\* ------------------------------------------------------------------------
\* The same activities with their rows in several orders
\* ------------------------------------------------------------------------
Bijections(n) == {p \in [1..n -> 1..n] : \A i, j \in 1..n : p[i] = p[j] => i = j}

Permuted(seq, p) == [i \in 1..Len(seq) |-> seq[p[i]]]

\* as numbered, backwards, and the first row moved to the end
RowOrders == {<<1, 2, 3>>, <<3, 2, 1>>, <<2, 3, 1>>}

\* equal starts, no starts, the last row first, the first row last, and a
\* row without a start among rows that differ
OrderProfiles ==
    {[i \in TaskIds |-> 0], [i \in TaskIds |-> NaN],
     [i \in TaskIds |-> IF i = 3 THEN 0 ELSE 1], [i \in TaskIds |-> IF i = 1 THEN 1 ELSE 0],
     [i \in TaskIds |-> IF i = 1 THEN NaN ELSE i - 2]}

InitOrder ==
    /\ \E dur \in {[i \in TaskIds |-> MaxDur], [i \in TaskIds |-> IF i = 2 THEN 0 ELSE MaxDur]},
          es \in OrderProfiles, order \in RowOrders :
          /\ rows = Permuted([i \in TaskIds |-> Row(i, dur[i], es[i])], order)
          /\ now \in ClockFor(es)
    /\ impact = NoImpact
    /\ rels \in EdgeLists
    /\ sim = IdleSim
    /\ PageStart
    /\ LinksStart
    /\ ChartStart

SpecOrder == InitOrder /\ [][Next]_vars

\* ------------------------------------------------------------------------
\* The page (lines 926-1125): datasets
\* ------------------------------------------------------------------------
BaselineRow(id, es, ef, ls, lf, dur, tf, ff) ==
    [ActivityID |-> id, DurDays |-> dur * DAY_MS, ES |-> es, EF |-> ef, LS |-> ls, LF |-> lf,
     TotalFloat_d |-> tf, FreeFloat_d |-> ff]

\* lines 49-55, dates as day numbers counted from 2024-09-09
sampleData ==
    << BaselineRow(101, 0, 11, 0, 11, 9, 0, 0),
       BaselineRow(205, 178, 178, 178, 178, 0, 0, 0),
       BaselineRow(410, 182, 235, 182, 241, 39, 4, 2),
       BaselineRow(420, 154, 179, 144, 170, 20, 0, 0),
       BaselineRow(700, 639, 674, 639, 674, 25, 0, 0) >>

\* workbooks to upload, as their normalised rows and edges: a two-activity
\* chain with its schedule, and one activity with nothing but a duration
Uploads ==
    { [rows |-> << BaselineRow(1, 0, 1, 0, 1, 1, 0, 0), BaselineRow(2, 1, 2, 1, 2, 1, 0, 0) >>,
       rels |-> << Rel(1, 2, "FS", 0) >>],
      [rows |-> << Row(1, 2 * DAY_MS, NaN) >>, rels |-> << >>] }

\* the activities the user picks in the select
ActivityInputs == {1, 101}

\* what the user types into the number input
DaysInputs == {0 - DAY_MS, 0, 10 * DAY_MS}

\* the user saves this many scenarios at most
MaxSaved == 2

\* ------------------------------------------------------------------------
\* The page: derived values
\* ------------------------------------------------------------------------
\* line 950
activeRows == IF simRows = null THEN rows ELSE The(simRows)

\* lines 951-959: the ids on offer in the select
activityOptions == IdSet(rows)

Abs(x) == IF x >= 0 THEN x ELSE 0 - x

\* line 960
scenarioFormValid == scenarioActivity # NoActivity /\ Abs(scenarioDays) > 0

\* the cap tested one entry late
maxScenariosReached_OneLate == Len(scenarioLibrary) > 10

\* line 961
maxScenariosReached == Len(scenarioLibrary) >= 10

\* lines 1089-1097 and 1110-1118: the scenario of the form; its id is its
\* prefix and the time of its making
FormScenario(prefix) ==
    [id |-> <<prefix, now>>,
     activityId |-> scenarioActivity,
     deltaDays |-> IF scenarioMode = "delay" THEN Abs(scenarioDays) ELSE 0 - Abs(scenarioDays)]

\* ------------------------------------------------------------------------
\* The page: handlers.  A handler runs only while its button is enabled.  The
\* status texts are the source's, the interpolated parts left out.
\* ------------------------------------------------------------------------
\* lines 1006-1044: the workbook read, everything is set in one go
handleUploadXLSX ==
    \E file \in Uploads :
        /\ rows' = file.rows
        /\ simRows' = null
        /\ activeScenario' = null
        /\ scenarioStatus' = ""
        /\ scenarioActivity' = NoActivity
        /\ scenarioMode' = "delay"
        /\ scenarioDays' = 10 * DAY_MS
        /\ rels' = file.rels
        /\ UNCHANGED <<now, call, links, chart, scenarioLibrary, isSimulating, timers>>

\* line 1308 (options of lines 1313-1317): an option of the select is chosen
setScenarioActivity ==
    \E id \in ActivityInputs \cap activityOptions :
        /\ scenarioActivity' = id
        /\ UNCHANGED <<rows, rels, now, call, links, chart, simRows, scenarioLibrary, activeScenario,
                       scenarioStatus, isSimulating, scenarioMode, scenarioDays, timers>>

\* line 1324
setScenarioMode ==
    \E mode \in {"delay", "accelerate"} :
        /\ scenarioMode' = mode
        /\ UNCHANGED <<rows, rels, now, call, links, chart, simRows, scenarioLibrary, activeScenario,
                       scenarioStatus, isSimulating, scenarioActivity, scenarioDays, timers>>

\* line 1338: the number typed, never below 0
setScenarioDays ==
    \E typed \in DaysInputs :
        /\ scenarioDays' = MathMax(0, typed)
        /\ UNCHANGED <<rows, rels, now, call, links, chart, simRows, scenarioLibrary, activeScenario,
                       scenarioStatus, isSimulating, scenarioActivity, scenarioMode, timers>>

\* runScenario without the test that the activity is in the dataset
runScenario_AnyActivity(scenario) ==
    IF ~NumberIsFinite(scenario.activityId)
    THEN /\ scenarioStatus' = "Select a valid activity ID and impact before running a scenario."
         /\ UNCHANGED <<isSimulating, timers>>
    ELSE /\ isSimulating' = TRUE
         /\ scenarioStatus' = "Re-running forward/backward passes..."
         /\ timers' = timers \cup {[rows |-> rows, rels |-> rels, scenario |-> scenario]}

\* lines 1056-1068: runScenario up to its await; the rows and edges the timer
\* will use are those of this render
runScenario(scenario) ==
    IF ~NumberIsFinite(scenario.activityId)
    THEN /\ scenarioStatus' = "Select a valid activity ID and impact before running a scenario."
         /\ UNCHANGED <<isSimulating, timers>>
    ELSE IF scenario.activityId \notin IdSet(rows)
    THEN /\ scenarioStatus' = "Activity is not present in the current dataset."
         /\ UNCHANGED <<isSimulating, timers>>
    ELSE /\ isSimulating' = TRUE
         /\ scenarioStatus' = "Re-running forward/backward passes..."
         /\ timers' = timers \cup {[rows |-> rows, rels |-> rels, scenario |-> scenario]}

\* the resumed run leaving isSimulating set
runScenarioResumes_StaysBusy ==
    \E t \in timers :
        /\ simRows' = Some(simulateScenario(t.rows, t.rels, t.scenario, now))
        /\ activeScenario' = Some(t.scenario)
        /\ scenarioStatus' = "Scenario applied."
        /\ timers' = timers \ {t}
        /\ UNCHANGED <<rows, rels, now, call, links, chart, scenarioLibrary, isSimulating,
                       scenarioActivity, scenarioMode, scenarioDays>>

\* the resumed run storing its result as the rows
runScenarioResumes_SetsRows ==
    \E t \in timers :
        /\ rows' = simulateScenario(t.rows, t.rels, t.scenario, now)
        /\ simRows' = Some(simulateScenario(t.rows, t.rels, t.scenario, now))
        /\ activeScenario' = Some(t.scenario)
        /\ isSimulating' = FALSE
        /\ scenarioStatus' = "Scenario applied."
        /\ timers' = timers \ {t}
        /\ UNCHANGED <<rels, now, call, links, chart, scenarioLibrary,
                       scenarioActivity, scenarioMode, scenarioDays>>

\* lines 1069-1075: the timer fires and runScenario goes on
runScenarioResumes ==
    \E t \in timers :
        /\ simRows' = Some(simulateScenario(t.rows, t.rels, t.scenario, now))
        /\ activeScenario' = Some(t.scenario)
        /\ isSimulating' = FALSE
        /\ scenarioStatus' = "Scenario applied."
        /\ timers' = timers \ {t}
        /\ UNCHANGED <<rows, rels, now, call, links, chart, scenarioLibrary,
                       scenarioActivity, scenarioMode, scenarioDays>>

\* clearScenarioView leaving the scenario marked active
clearScenarioView_KeepsActive ==
    /\ simRows # null
    /\ simRows' = null
    /\ scenarioStatus' = "Scenario view reset. Showing baseline schedule."
    /\ UNCHANGED <<rows, rels, now, call, links, chart, scenarioLibrary, activeScenario, isSimulating,
                   scenarioActivity, scenarioMode, scenarioDays, timers>>

\* lines 1078-1082; the Reset button is disabled without simRows (line 1298)
clearScenarioView ==
    /\ simRows # null
    /\ simRows' = null
    /\ activeScenario' = null
    /\ scenarioStatus' = "Scenario view reset. Showing baseline schedule."
    /\ UNCHANGED <<rows, rels, now, call, links, chart, scenarioLibrary, isSimulating,
                   scenarioActivity, scenarioMode, scenarioDays, timers>>

\* lines 1084-1099; the Run button is disabled at line 1356
handleRunScenario ==
    /\ scenarioFormValid /\ ~isSimulating
    /\ IF ~scenarioFormValid
       THEN /\ scenarioStatus' = "Choose an activity and an impact greater than 0 days."
            /\ UNCHANGED <<isSimulating, timers>>
       ELSE runScenario(FormScenario("adhoc"))
    /\ UNCHANGED <<rows, rels, now, call, links, chart, simRows, scenarioLibrary, activeScenario,
                   scenarioActivity, scenarioMode, scenarioDays>>

\* lines 1400-1409: the Run button of a saved scenario, disabled at line 1405
runSavedScenario ==
    \E i \in 1..Len(scenarioLibrary) :
        /\ ~isSimulating
        /\ runScenario(scenarioLibrary[i])
        /\ UNCHANGED <<rows, rels, now, call, links, chart, simRows, scenarioLibrary, activeScenario,
                       scenarioActivity, scenarioMode, scenarioDays>>

\* lines 1101-1121; the Save button is disabled at line 1366
handleSaveScenario ==
    /\ scenarioFormValid /\ ~maxScenariosReached
    /\ Len(scenarioLibrary) < MaxSaved
    /\ IF ~scenarioFormValid
       THEN /\ scenarioStatus' = "Choose an activity and impact before saving the scenario."
            /\ UNCHANGED scenarioLibrary
       ELSE IF maxScenariosReached
       THEN /\ scenarioStatus' = "Scenario library full (10). Delete one to add a new scenario."
            /\ UNCHANGED scenarioLibrary
       ELSE /\ scenarioLibrary' = Append(scenarioLibrary, FormScenario("scenario"))
            /\ scenarioStatus' = "Scenario saved."
    /\ UNCHANGED <<rows, rels, now, call, links, chart, simRows, activeScenario, isSimulating,
                   scenarioActivity, scenarioMode, scenarioDays, timers>>

\* lines 1123-1125
handleDeleteScenario ==
    \E i \in 1..Len(scenarioLibrary) :
        /\ scenarioLibrary' =
              SelectSeq(scenarioLibrary, LAMBDA scenario : scenario.id # scenarioLibrary[i].id)
        /\ UNCHANGED <<rows, rels, now, call, links, chart, simRows, activeScenario, scenarioStatus,
                       isSimulating, scenarioActivity, scenarioMode, scenarioDays, timers>>

\* time passes
Tick ==
    /\ \E later \in Clock : later > now /\ now' = later
    /\ UNCHANGED <<rows, rels, call, links, chart, page>>

\* the page as loaded: the sample schedule, no edges
InitPage ==
    /\ rows = sampleData
    /\ rels = <<>>
    /\ impact = NoImpact
    /\ now \in Clock
    /\ sim = IdleSim
    /\ PageStart
    /\ LinksStart
    /\ ChartStart

NextPage ==
    \/ handleUploadXLSX
    \/ setScenarioActivity
    \/ setScenarioMode
    \/ setScenarioDays
    \/ handleRunScenario
    \/ runSavedScenario
    \/ runScenarioResumes
    \/ clearScenarioView
    \/ handleSaveScenario
    \/ handleDeleteScenario
    \/ Tick

SpecPage == InitPage /\ [][NextPage]_vars

\* ------------------------------------------------------------------------
\* Runs from the form and from the library, the form's days left at 10
\* ------------------------------------------------------------------------
NextActivation ==
    \/ handleUploadXLSX
    \/ setScenarioActivity
    \/ setScenarioMode
    \/ handleRunScenario
    \/ runSavedScenario
    \/ runScenarioResumes
    \/ clearScenarioView
    \/ handleSaveScenario
    \/ handleDeleteScenario

SpecActivation == InitPage /\ [][NextActivation]_vars

\* line 1068: a waiting run leaves the timers, which it does by resuming
TimerFires == \E t \in timers : timers' = timers \ {t}

\* the timer of a waiting run fires
FairSpecActivation == SpecActivation /\ WF_timers(TimerFires)

\* ------------------------------------------------------------------------
\* The library up to its capacity: handleSaveScenario called whatever the
\* state of its button
\* ------------------------------------------------------------------------
\* lines 1101-1121
saveScenarioCall ==
    /\ IF ~scenarioFormValid
       THEN /\ scenarioStatus' = "Choose an activity and impact before saving the scenario."
            /\ UNCHANGED scenarioLibrary
       ELSE IF maxScenariosReached
       THEN /\ scenarioStatus' = "Scenario library full (10). Delete one to add a new scenario."
            /\ UNCHANGED scenarioLibrary
       ELSE /\ scenarioLibrary' = Append(scenarioLibrary, FormScenario("scenario"))
            /\ scenarioStatus' = "Scenario saved."
    /\ UNCHANGED <<rows, rels, now, call, links, chart, simRows, activeScenario, isSimulating,
                   scenarioActivity, scenarioMode, scenarioDays, timers>>

NextLibrary ==
    \/ handleUploadXLSX
    \/ setScenarioActivity
    \/ handleRunScenario
    \/ runSavedScenario
    \/ runScenarioResumes
    \/ clearScenarioView
    \/ saveScenarioCall
    \/ handleDeleteScenario
    \/ Tick

SpecLibrary == InitPage /\ [][NextLibrary]_vars

\* ------------------------------------------------------------------------
\* runScenario called with any scenario, whatever the state of the buttons
\* ------------------------------------------------------------------------
\* calls of runScenario that have not resumed yet, at most
MaxInFlight == 2

\* the scenarios asked for: no activity, activities of the datasets, an
\* activity of none; deltas in half days, or none
Requests ==
    [id : {<<"adhoc", t>> : t \in Clock},
     activityId : {NaN, 1, 101} \cup UnknownIds,
     deltaDays : {NaN, 0 - 10 * DAY_MS, 10 * DAY_MS}]

\* lines 1056-1068
runScenarioCall ==
    \E scenario \in Requests :
        /\ Cardinality(timers) < MaxInFlight
        /\ scenario.id[2] = now
        /\ runScenario(scenario)
        /\ UNCHANGED <<rows, rels, now, call, links, chart, simRows, scenarioLibrary, activeScenario,
                       scenarioActivity, scenarioMode, scenarioDays>>

NextRequests ==
    \/ handleUploadXLSX
    \/ runScenarioCall
    \/ runScenarioResumes
    \/ clearScenarioView
    \/ Tick

SpecRequests == InitPage /\ [][NextRequests]_vars

\* ------------------------------------------------------------------------
\* The page and a call of simulateScenario on its rows and edges, step by
\* step; no handler runs while the call does
\* ------------------------------------------------------------------------
\* a sheet line without an id
BlankRow == Row(NaN, NaN, NaN)

\* the rows simulateScenario returns as they are, the same objects as in
\* its argument: all of rows.slice() (line 225), else those without a task
\* (line 368)
SharedRows(rs) ==
    IF Len(rs) = 0 THEN {}
    ELSE IF IdSet(rs) = {} THEN 1..Len(rs)
    ELSE {i \in 1..Len(rs) : ~NumberIsFinite(rs[i].ActivityID)}

Quiet == sim.pc \in {"idle", "done"}

InitBaseline ==
    /\ rows \in {sampleData, <<Row(1, 2 * DAY_MS, NaN), BlankRow>>, <<BlankRow>>}
    /\ rels = <<>>
    /\ impact = NoImpact
    /\ now \in Clock
    /\ sim = IdleSim
    /\ PageStart
    /\ LinksStart
    /\ ChartStart

NextBaseline ==
    \/ Quiet /\ handleUploadXLSX
    \/ Quiet /\ setScenarioActivity
    \/ Quiet /\ handleRunScenario
    \/ Quiet /\ runSavedScenario
    \/ Quiet /\ runScenarioResumes
    \/ Quiet /\ clearScenarioView
    \/ Quiet /\ handleSaveScenario
    \/ Quiet /\ handleDeleteScenario
    \/ Quiet /\ Tick
    \/ Call
    \/ Dequeue
    \/ Drain
    \/ Backward
    \/ Return

SpecBaseline == InitBaseline /\ [][NextBaseline]_vars

\* ------------------------------------------------------------------------
\* Predecessor strings: the tokens of the grammar, each piece with what the
\* grammar says it means, and pieces outside the grammar
\* ------------------------------------------------------------------------
Leads == {<<>>, <<" ">>, <<"\t">>}

Gaps == {<<>>, <<" ">>}

DigitRuns ==
    {[text |-> <<"2">>, id |-> 2], [text |-> <<"0", "5">>, id |-> 5],
     [text |-> <<"2", "0", "5">>, id |-> 205], [text |-> <<"1", "3", "0">>, id |-> 130]}

GrammarTypes ==
    {[text |-> <<>>, type |-> "FS"], [text |-> <<"F", "S">>, type |-> "FS"],
     [text |-> <<"s", "s">>, type |-> "SS"], [text |-> <<"F", "f">>, type |-> "FF"],
     [text |-> <<"s", "F">>, type |-> "SF"]}

\* lags in days
GrammarLags ==
    {[text |-> <<>>, lag |-> 0], [text |-> <<"+", "3">>, lag |-> 3],
     [text |-> <<"-", "2">>, lag |-> 0 - 2], [text |-> <<"+", " ", "3">>, lag |-> 3],
     [text |-> <<"-", " ", "1", "2">>, lag |-> 0 - 12], [text |-> <<"+">>, lag |-> 0],
     [text |-> <<"-">>, lag |-> 0], [text |-> <<"+", "3", "-", "2">>, lag |-> 3],
     [text |-> <<"-", "+", "2">>, lag |-> 0]}

\* what takes the place of the digits or of the type in the other tokens
OddTexts == {<<>>, <<"a", "b">>, <<"F">>, <<"a", "b", "c", "F", "S">>}

Compose(lead, digits, gap, type, gap2, lag, trail) ==
    lead \o digits \o gap \o type \o gap2 \o lag \o trail

GrammarTokens ==
    {Compose(l, d.text, g, ty.text, g2, lag.text, tr) :
        l \in Leads, d \in DigitRuns, g \in Gaps, ty \in GrammarTypes, g2 \in Gaps,
        lag \in GrammarLags, tr \in Gaps}

OddTokens ==
    {Compose(l, d, <<>>, ty, <<>>, lag.text, tr) :
        l \in Leads, d \in {<<>>, <<"2">>}, ty \in OddTexts, lag \in GrammarLags, tr \in Gaps}

\* tokens to join with separators
JoinedTokens ==
    {<<>>, <<"2", "0", "5", "F", "S", "+", "3">>, <<"1", "3", "0", "-", "2">>,
     <<"a", "b", "c", "F", "S">>}

PredStrings ==
    GrammarTokens \cup OddTokens
        \cup {a \o sep \o b : a \in JoinedTokens, b \in JoinedTokens,
                              sep \in {<<",">>, <<";">>, <<",", ";">>}}

SheetRow(id, str) == [ActivityID |-> id, Predecessors |-> str]

\* one row with a successor id, or a row without a finite id before it
InitLinks ==
    /\ rows = sampleData
    /\ rels = <<>>
    /\ impact = NoImpact
    /\ now \in Clock
    /\ sim = IdleSim
    /\ PageStart
    /\ \/ \E str \in PredStrings : mapped = <<SheetRow(7, str)>>
       \/ \E a \in JoinedTokens, b \in JoinedTokens :
             mapped = <<SheetRow(NaN, a), SheetRow(7, b)>>
    /\ build = IdleBuild
    /\ ChartStart

SpecLinks == InitLinks /\ [][NextLinks]_vars

\* computeDomain on any of the item lists
InitChart ==
    /\ rows = sampleData
    /\ rels = <<>>
    /\ impact = NoImpact
    /\ now \in Clock
    /\ sim = IdleSim
    /\ PageStart
    /\ LinksStart
    /\ items \in ItemLists
    /\ dom = IdleDomain

SpecChart == InitChart /\ [][NextChart]_vars

\* ------------------------------------------------------------------------
\* Vocabulary of the properties
\* ------------------------------------------------------------------------
Done == sim.pc = "done"

Known == DOMAIN sim.task

\* the edges of the solved graph, as the caller gave them
KnownEdges == {i \in 1..Len(rels) : rels[i].PredID \in IdSet(rows) /\ rels[i].SuccID \in IdSet(rows)}

EdgesInto(id) == {i \in KnownEdges : rels[i].SuccID = id}

EdgesOutOf(id, types) == {i \in KnownEdges : rels[i].PredID = id /\ rels[i].RelType \in types}

\* the network has no cycle: its activities can be numbered along the edges
Acyclic ==
    \E rank \in [IdSet(rows) -> 1..Cardinality(IdSet(rows))] :
        \A i \in KnownEdges : rank[rels[i].PredID] < rank[rels[i].SuccID]

UniqueIds ==
    \A i, j \in RowIndices(rows) :
        rows[i].ActivityID = rows[j].ActivityID => i = j

SetMax(S) == CHOOSE m \in S : \A x \in S : x <= m

\* the default epoch: the least baseline early start, else the current time
DefaultEpoch ==
    LET starts == {rows[i].ES * DAY_MS :
                     i \in {j \in RowIndices(rows) :
                              NumberIsFinite(rows[j].ActivityID) /\ rows[j].ES # NaN}}
    IN  IF starts = {} THEN now ELSE SetMin(starts)

BaselineStart(id) ==
    LET row == rows[LastRowOf(rows, id)]
    IN  IF row.ES # NaN THEN row.ES * DAY_MS ELSE DefaultEpoch

\* what edge i asks of its successor's early start, from the final dates
ForwardConstraint(i) ==
    LET p == sim.task[rels[i].PredID]
        q == sim.task[rels[i].SuccID]
        lag == rels[i].Lag_d
    IN  CASE rels[i].RelType = "FS" -> p.EF + lag
          [] rels[i].RelType = "SS" -> p.ES + lag
          [] rels[i].RelType = "FF" -> p.EF + lag - q.duration
          [] rels[i].RelType = "SF" -> p.ES + lag - q.duration

\* C1: on an acyclic network every early start is the largest of the baseline
\* start (the default epoch without one) and the constraints of the incoming
\* edges, and every early finish is the early start plus the duration.
C1_ForwardPass ==
    (Done /\ UniqueIds /\ Acyclic) =>
        \A id \in Known :
            /\ sim.task[id].ES =
                 SetMax({BaselineStart(id)} \cup {ForwardConstraint(i) : i \in EdgesInto(id)})
            /\ sim.task[id].EF = sim.task[id].ES + sim.task[id].duration

\* an activity with two incoming edges whose start is set by one of them
C1_Witness ==
    /\ Done /\ UniqueIds /\ Acyclic
    /\ \E id \in Known :
          /\ Cardinality(EdgesInto(id)) = 2
          /\ \E i \in EdgesInto(id) : rels[i].RelType = "FF"
          /\ sim.task[id].ES > BaselineStart(id)
          /\ sim.task[id].duration > 0

\* what the outgoing edges of the given types allow, read from the successors'
\* LATE dates: late start for FS and SS, late finish for FF and SF
LateLimit(id, types) ==
    SetMin({(IF rels[i].RelType \in {"FS", "SS"}
             THEN sim.task[rels[i].SuccID].LS
             ELSE sim.task[rels[i].SuccID].LF) - rels[i].Lag_d : i \in EdgesOutOf(id, types)})

\* C2: the late finish of an activity with outgoing FS or FF edges is the least
\* of successor.LS - lag (FS) and successor.LF - lag (FF), and its late start is
\* further limited by the least of successor.LS - lag (SS) and
\* successor.LF - lag (SF): the limits come from the successors' late dates.
C2_BackwardFromLateDates ==
    (Done /\ UniqueIds /\ Acyclic) =>
        \A id \in Known :
            EdgesOutOf(id, {"FS", "FF"}) # {} =>
                LET t == sim.task[id]
                    ls == MathMin(LateLimit(id, {"FS", "FF"}) - t.duration,
                                  LateLimit(id, {"SS", "SF"}))
                IN  t.LS = ls /\ t.LF = ls + t.duration

\* C3: after any run, EF = ES + duration and LF = LS + duration for every
\* activity with a finite id.
C3_DatesConsistent ==
    Done =>
        \A id \in Known :
            /\ sim.task[id].EF = sim.task[id].ES + sim.task[id].duration
            /\ sim.task[id].LF = sim.task[id].LS + sim.task[id].duration

\* an impacted activity left over by a cycle, and one whose late start an SS
\* or SF edge lowered
C3_Witness ==
    /\ Done
    /\ impact # NoImpact
    /\ ~InSeq(impact.activityId, sim.topo)
    /\ sim.task[impact.activityId].duration > 0
    /\ \E id \in Known :
          /\ EdgesOutOf(id, {"SS", "SF"}) # {}
          /\ sim.task[id].LF < sim.projectFinish
          /\ sim.task[id].duration > 0

\* C4: the total float of every activity is round((LS - ES) / day) of the same
\* run, halves rounded up, negative when LS < ES; the returned row carries it.
C4_TotalFloat ==
    Done =>
        /\ \A id \in Known :
              LET t == sim.task[id]
              IN  /\ 2 * DAY_MS * t.TotalFloat_d <= 2 * (t.LS - t.ES) + DAY_MS
                  /\ 2 * (t.LS - t.ES) + DAY_MS < 2 * DAY_MS * (t.TotalFloat_d + 1)
        /\ \A i \in RowIndices(rows) :
              NumberIsFinite(rows[i].ActivityID) =>
                  sim.result[i].TotalFloat_d = sim.task[rows[i].ActivityID].TotalFloat_d

\* a negative total float, and one that rounding half a day up decides
C4_Witness ==
    /\ Done
    /\ \E id \in Known : sim.task[id].TotalFloat_d < 0
    /\ \E id \in Known : sim.task[id].LS - sim.task[id].ES = 1 /\ sim.task[id].TotalFloat_d = 1

\* C5 as claimed: free float never exceeds total float on an activity with an
\* outgoing FS or FF edge.
C5_FreeFloatBound ==
    Done =>
        \A id \in Known :
            EdgesOutOf(id, {"FS", "FF"}) # {} =>
                sim.task[id].FreeFloat_d <= sim.task[id].TotalFloat_d

\* C5 as amended: free float never exceeds total float on an activity with an
\* outgoing FS or FF edge, no outgoing SS or SF edge and a total float that is
\* not negative.
C5_FreeFloatBoundAmended ==
    Done =>
        \A id \in Known :
            (/\ EdgesOutOf(id, {"FS", "FF"}) # {}
             /\ EdgesOutOf(id, {"SS", "SF"}) = {}
             /\ sim.task[id].TotalFloat_d >= 0) =>
                sim.task[id].FreeFloat_d <= sim.task[id].TotalFloat_d

\* an activity with FS and FF edges only that has float to spare
C5_Witness ==
    /\ Done
    /\ \E id \in Known :
          /\ EdgesOutOf(id, {"FS"}) # {}
          /\ EdgesOutOf(id, {"FF"}) # {}
          /\ EdgesOutOf(id, {"SS", "SF"}) = {}
          /\ sim.task[id].TotalFloat_d > 0
          /\ sim.task[id].FreeFloat_d = sim.task[id].TotalFloat_d

\* another call on the same rows and edges, with the given impact
RunWith(imp) == SimRun(SimStart(rows, rels, imp, now), rows)

\* the project finish of a run: the latest early finish
FinishOf(s) == SetMax({s.task[id].EF : id \in DOMAIN s.task})

\* the activity has total float 0 in the schedule without impact
Critical(id) == RunWith(NoImpact).task[id].TotalFloat_d = 0

SmallerDeltas(d) == {d1 \in Deltas \cup {0} : d1 <= d}

\* C6 as claimed: on any network, a larger delta on an activity of total float 0
\* never gives an earlier project finish.
C6_DeltaMonotone ==
    (Done /\ impact # NoImpact /\ Critical(impact.activityId)) =>
        \A d1 \in SmallerDeltas(impact.deltaDays) :
            FinishOf(RunWith([impact EXCEPT !.deltaDays = d1])) <= FinishOf(sim)

\* C6 as amended: the same, for an activity that no FF or SF edge leads into.
C6_DeltaMonotoneAmended ==
    (/\ Done /\ impact # NoImpact /\ Critical(impact.activityId)
     /\ \A i \in EdgesInto(impact.activityId) : rels[i].RelType \notin {"FF", "SF"}) =>
        \A d1 \in SmallerDeltas(impact.deltaDays) :
            FinishOf(RunWith([impact EXCEPT !.deltaDays = d1])) <= FinishOf(sim)

\* a delayed critical activity between an SS edge in and an FF edge out that
\* moves the project finish
C6_Witness ==
    /\ Done /\ impact # NoImpact /\ impact.deltaDays > 0
    /\ Critical(impact.activityId)
    /\ \E i \in EdgesInto(impact.activityId) : rels[i].RelType = "SS"
    /\ \E i \in EdgesOutOf(impact.activityId, {"FF"}) : TRUE
    /\ FinishOf(RunWith(NoImpact)) < FinishOf(sim)

\* C8 as claimed: a second call with the same rows and edges and no impact, at
\* whatever time it is made, returns the same schedule.
C8_Deterministic ==
    (Done /\ impact = NoImpact) =>
        \A t \in Clock : simulateScenario(rows, rels, NoImpact, t) = sim.result

\* C8 as amended: the same, when at least one activity with a finite id has a
\* baseline early start.
C8_DeterministicAmended ==
    (/\ Done /\ impact = NoImpact
     /\ \E i \in RowIndices(rows) : NumberIsFinite(rows[i].ActivityID) /\ rows[i].ES # NaN) =>
        \A t \in Clock : simulateScenario(rows, rels, NoImpact, t) = sim.result

\* a run in which one row has no baseline start and takes the least of the others
C8_Witness ==
    /\ Done /\ impact = NoImpact
    /\ \E i, j \in RowIndices(rows) :
          /\ rows[i].ES = NaN /\ rows[j].ES # NaN
          /\ sim.result[i].ES = rows[j].ES
    /\ Len(rels) = 2

\* how far a call is from returning
Measure ==
    LET n == Len(rows) + 1
    IN  CASE sim.pc = "idle" -> 4 * n
          [] sim.pc = "forward" -> 3 * n + (Len(rows) - Len(sim.topo))
          [] sim.pc = "backward" -> 2 * n + Len(sim.reverse) - 1
          [] sim.pc = "floats" -> n
          [] sim.pc = "done" -> 0

AllAssigned ==
    \A id \in Known :
        /\ NumberIsFinite(sim.task[id].ES) /\ NumberIsFinite(sim.task[id].EF)
        /\ NumberIsFinite(sim.task[id].LS) /\ NumberIsFinite(sim.task[id].LF)

\* C10: on every network, cycles, self-loops and duplicate edges included, the
\* call returns without failing: every step brings the return strictly
\* nearer, the loops read only what is there, no activity is dequeued twice,
\* and at the return every activity with a finite id has its four dates.
C10_CycleTolerance ==
    /\ [](/\ \A id \in Known : sim.dequeued[id] <= 1
          /\ Done => AllAssigned
          /\ sim.pc = "forward" /\ sim.queue # <<>> => Head(sim.queue) \in Known
          /\ sim.pc = "backward" => sim.reverse # <<>> /\ Head(sim.reverse) \in Known
          /\ Measure >= 0)
    /\ [][Measure' < Measure]_vars

\* a returned run of a network with a cycle, part of which the queue reached
C10_Witness ==
    /\ Done /\ ~Acyclic
    /\ \E id \in Known : sim.dequeued[id] = 0 /\ NumberIsFinite(sim.task[id].LS)
    /\ \E id \in Known : sim.dequeued[id] = 1
    /\ AllAssigned

\* the network of C7: A of 5 days from day 0, B of 3 days after A, finish to
\* start without lag
PairOfC7 ==
    /\ Len(rows) = 2
    /\ rows[1].ActivityID = 1 /\ rows[1].DurDays = 5 * DAY_MS /\ rows[1].ES = 0
    /\ rows[2].ActivityID = 2 /\ rows[2].DurDays = 3 * DAY_MS
    /\ rels = <<Rel(1, 2, "FS", 0)>>

\* C7: for that network a run with no impact gives EF(A) = 5, ES(B) = 5,
\* EF(B) = 8 and total float 0 for both, with the project finishing on day 8;
\* a run with A delayed by 4 days gives EF(A) = 9, ES(B) = 9, EF(B) = 12, with
\* the project finishing on day 12.
C7_TwoActivities ==
    (Done /\ PairOfC7) =>
        /\ impact = NoImpact =>
              /\ sim.result[1].EF = 5 /\ sim.result[2].ES = 5 /\ sim.result[2].EF = 8
              /\ sim.result[1].TotalFloat_d = 0 /\ sim.result[2].TotalFloat_d = 0
              /\ sim.projectFinish = 8 * DAY_MS
        /\ impact = [activityId |-> 1, deltaDays |-> 4 * DAY_MS] =>
              /\ sim.result[1].EF = 9 /\ sim.result[2].ES = 9 /\ sim.result[2].EF = 12
              /\ sim.projectFinish = 12 * DAY_MS

\* the delayed run of that network has returned, B without a baseline start
C7_Witness ==
    /\ Done /\ PairOfC7
    /\ rows[2].ES = NaN
    /\ impact = [activityId |-> 1, deltaDays |-> 4 * DAY_MS]
    /\ sim.result[2].EF = 12

\* ES, EF, LS, LF, duration, total float and free float
SameSchedule(a, b) ==
    /\ a.ES = b.ES /\ a.EF = b.EF /\ a.LS = b.LS /\ a.LF = b.LF
    /\ a.DurDays = b.DurDays
    /\ a.TotalFloat_d = b.TotalFloat_d /\ a.FreeFloat_d = b.FreeFloat_d

\* C9 as claimed: once clearScenarioView has run, the rows on show are, row by
\* row, those simulateScenario returns for the baseline rows, the edges and no
\* impact.
C9_ResetIdempotent ==
    scenarioStatus = "Scenario view reset. Showing baseline schedule." =>
        LET again == simulateScenario(rows, rels, NoImpact, now)
        IN  /\ Len(again) = Len(activeRows)
            /\ \A i \in RowIndices(rows) : SameSchedule(activeRows[i], again[i])

\* the forward pass ended with an activity that never reached in-degree 0
Unresolved == Done /\ \E id \in Known : sim.dequeued[id] = 0

\* the edge lists got from rels by dropping edges that have no cycle: none of
\* the edges, or one of them that is no self-loop
AcyclicParts ==
    {<<>>} \cup {<<rels[i]>> : i \in {k \in 1..Len(rels) : rels[k].PredID # rels[k].SuccID}}

\* C11: what simulateScenario returns tells a cyclic network from an acyclic
\* one: the value returned for a network with an unresolved activity is
\* returned for no acyclic network on the same rows, so that a flag read off
\* the result can mark exactly the cyclic schedules.
C11_CycleObservable ==
    Unresolved =>
        \A edges \in AcyclicParts : simulateScenario(rows, edges, impact, now) # sim.result

\* the edges of rels between rows
KnownOnly == SelectSeq(rels, LAMBDA r : r.PredID \in IdSet(rows) /\ r.SuccID \in IdSet(rows))

\* C12: the run of a network returns what the run of the same network without
\* its dangling edges returns, and every step of it is defined.
C12_DanglingDropped ==
    Done => sim.result = simulateScenario(rows, KnownOnly, impact, now)

\* a returned run with a dangling edge before and after an edge that delays
\* activity 2
C12_Witness ==
    /\ Done /\ Len(rels) = 3 /\ Len(KnownOnly) = 1
    /\ rels[1].PredID \in UnknownIds /\ rels[3].SuccID \in UnknownIds
    /\ sim.result[2].ES > 0

StartsWith(str, prefix) ==
    Len(prefix) <= Len(str) /\ SubSeq(str, 1, Len(prefix)) = prefix

Token_205FS3 == <<"2", "0", "5", "F", "S", "+", "3">>

Token_130m2 == <<"1", "3", "0", "-", "2">>

\* C13: a piece of the form [spaces] digits [two-letter type] [lag clause]
\* parses to the predecessor id of the digits, the type in upper case (FS
\* when absent) and the signed digit run after the leftmost of + and - (0
\* when there is none or no digits follow it); "205FS+3" gives 205, FS, 3
\* and "130-2" gives 130, FS, -2.
C13_LinkGrammar ==
    /\ \A l \in Leads : StartsWith(build.piece, l) =>
         \A d \in DigitRuns : StartsWith(build.piece, l \o d.text) =>
           \A g \in Gaps, ty \in GrammarTypes :
             StartsWith(build.piece, l \o d.text \o g \o ty.text) =>
               \A g2 \in Gaps, lag \in GrammarLags, tr \in Gaps :
                 build.piece = Compose(l, d.text, g, ty.text, g2, lag.text, tr) =>
                   build.edge = Some(Rel(d.id, build.succ, ty.type, lag.lag * DAY_MS))
    /\ build.piece = Token_205FS3 => build.edge = Some(Rel(205, build.succ, "FS", 3 * DAY_MS))
    /\ build.piece = Token_130m2 => build.edge = Some(Rel(130, build.succ, "FS", (0 - 2) * DAY_MS))

\* a lower-case type after spaces and a negative lag with a space, parsed
\* as the second piece of its row
C13_Witness ==
    /\ build.piece = <<" ", "0", "5", " ", "s", "F", " ", "-", " ", "1", "2">>
    /\ build.edge = Some(Rel(5, 7, "SF", (0 - 12) * DAY_MS))
    /\ build.edges = <<Rel(5, 7, "SF", (0 - 12) * DAY_MS)>>

\* C14: a piece that is empty, all white space or does not begin with a
\* digit parses to null, and the builder adds no edge for it.
C14_NoDigitNoEdge ==
    [][(BuildPart /\ (trim(Head(build.parts)) = <<>> \/ ~IsDigit(trim(Head(build.parts))[1])))
          => (build'.edge = null /\ build'.edges = build.edges)]_vars

\* ------------------------------------------------------------------------
\* The scenario library
\* ------------------------------------------------------------------------
LibraryFull == "Scenario library full (10). Delete one to add a new scenario."

\* C15: whatever is saved, deleted, run, reset and uploaded, the library
\* holds at most 10 scenarios; handleSaveScenario called to save the
\* scenario of the form while it holds 10 sets the library-full status and
\* leaves the library, entries and order, as it is (without a scenario in
\* the form the call is refused before that, with the form's own message,
\* and the library is left alone as well).
C15_LibraryCapacity ==
    /\ [](Len(scenarioLibrary) <= 10)
    /\ [][(saveScenarioCall /\ Len(scenarioLibrary) = 10)
            => /\ scenarioLibrary' = scenarioLibrary
               /\ scenarioFormValid => scenarioStatus' = LibraryFull
               /\ ~scenarioFormValid => scenarioStatus' # LibraryFull]_vars

\* ten saved, of two datasets, and the eleventh refused
C15_Witness ==
    /\ Len(scenarioLibrary) = 10
    /\ scenarioStatus = LibraryFull
    /\ scenarioLibrary[1].activityId # scenarioLibrary[10].activityId

\* ------------------------------------------------------------------------
\* Scenario requests
\* ------------------------------------------------------------------------
InvalidRequest == "Select a valid activity ID and impact before running a scenario."

NotPresent == "Activity is not present in the current dataset."

\* this step is runScenario called with the scenario
Asked(scenario) == runScenarioCall /\ scenario.id[2] = now /\ runScenario(scenario)

UnknownTarget(scenario) ==
    ~NumberIsFinite(scenario.activityId)
        \/ \A i \in 1..Len(rows) : rows[i].ActivityID # scenario.activityId

\* C16: runScenario called with a scenario whose activityId is not finite or
\* is no row's id starts no simulation (none is pending for such a target
\* either) and leaves simRows, activeScenario, isSimulating, the library,
\* the rows and the edges as they are; the status becomes one of the two
\* reasons.
C16_UnknownTargetRejected ==
    /\ [](\A t \in timers : \E i \in 1..Len(t.rows) : t.rows[i].ActivityID = t.scenario.activityId)
    /\ [][\A scenario \in Requests : (Asked(scenario) /\ UnknownTarget(scenario))
            => /\ UNCHANGED <<simRows, activeScenario, isSimulating, scenarioLibrary, rows, rels,
                              timers>>
               /\ scenarioStatus' \in {InvalidRequest, NotPresent}]_vars

\* a scenario of the sample data refused after an upload and a run, the
\* view of that run still shown
C16_Witness ==
    /\ scenarioStatus = NotPresent
    /\ rows # sampleData
    /\ simRows # null /\ activeScenario # null /\ The(activeScenario).activityId = 1
    /\ timers = {} /\ ~isSimulating

\* C17: runScenario called with a scenario whose deltaDays is not finite
\* starts no simulation, gives one of the validation messages and leaves
\* the view as it is.
C17_DeltaValidated ==
    [][\A scenario \in Requests : (Asked(scenario) /\ ~NumberIsFinite(scenario.deltaDays))
         => /\ UNCHANGED <<simRows, activeScenario, isSimulating, timers>>
            /\ scenarioStatus' \in {InvalidRequest, NotPresent}]_vars

\* ------------------------------------------------------------------------
\* The baseline
\* ------------------------------------------------------------------------
\* the call of simulateScenario returns with this step
Returns == ~Done /\ Done'

OnlyUploadReplaces == (rows' # rows \/ rels' # rels) => handleUploadXLSX

\* C18: no step of simulateScenario and no run, save, delete or reset
\* changes the rows or the edges, only an upload replaces them; and every
\* record simulateScenario returns is freshly built, none is a row object of
\* its argument.
C18_BaselineImmutable ==
    /\ [][OnlyUploadReplaces]_vars
    /\ [][Returns => SharedRows(rows) = {}]_vars

\* C18 amended: as above for the rows and the edges; the records returned
\* for rows with a finite id are built by the call, while a row without one
\* is returned as it is, the argument's own object.
C18_BaselineImmutableAmended ==
    /\ [][OnlyUploadReplaces]_vars
    /\ [][Returns =>
            /\ Len(sim'.result) = Len(rows)
            /\ \A i \in 1..Len(rows) :
                  /\ i \in SharedRows(rows) <=> ~NumberIsFinite(rows[i].ActivityID)
                  /\ i \in SharedRows(rows) => sim'.result[i] = rows[i]]_vars

\* a run shown and saved, then simulateScenario returned on rows of which
\* the second has no id
C18_Witness ==
    /\ Done
    /\ rows = <<Row(1, 2 * DAY_MS, NaN), BlankRow>>
    /\ sim.result[2] = BlankRow /\ sim.result[1] # rows[1]
    /\ simRows # null /\ Len(scenarioLibrary) = 1

\* ------------------------------------------------------------------------
\* Activation
\* ------------------------------------------------------------------------
\* the waiting run t resumes with this step
Completes(t) == t \in timers /\ t \notin timers'

\* C20: a run that passed validation is waiting with isSimulating set;
\* it completes, and with its completion isSimulating is false, the active
\* scenario is the one asked for and simRows is simulateScenario of that
\* scenario on the rows and edges of the call; there is never more than
\* one active scenario, nor more than one run waiting.
C20_Activation ==
    /\ [](timers # {} => isSimulating)
    /\ [](Cardinality(timers) <= 1 /\ Cardinality(activeScenario) <= 1)
    /\ [][\A t \in timers : Completes(t) =>
            /\ ~isSimulating'
            /\ activeScenario' = Some(t.scenario)
            /\ simRows' = Some(simulateScenario(t.rows, t.rels, t.scenario, now'))]_vars
    /\ (timers # {}) ~> (timers = {} /\ ~isSimulating /\ activeScenario # null)

\* a saved acceleration run after an upload, and completed
C20_Witness ==
    /\ timers = {} /\ ~isSimulating
    /\ rows # sampleData
    /\ activeScenario # null /\ The(activeScenario).id[1] = "scenario"
    /\ The(activeScenario).deltaDays < 0
    /\ simRows = Some(simulateScenario(rows, rels, The(activeScenario), now))
    /\ scenarioStatus = "Scenario applied."

\* ------------------------------------------------------------------------
\* The time domain of the chart
\* ------------------------------------------------------------------------
Returned == dom.pc = "returned"

NoItems == items = null \/ Len(The(items)) = 0

\* the days on which items start and finish, of the dates that parse
StartDaysOf(list) == {list[i].ES : i \in 1..Len(list)} \ {NaN}

FinishDaysOf(list) == {list[i].EF : i \in 1..Len(list)} \ {NaN}

Earliest == CHOOSE d \in StartDaysOf(The(items)) : \A e \in StartDaysOf(The(items)) : d <= e

Latest == CHOOSE d \in FinishDaysOf(The(items)) : \A e \in FinishDaysOf(The(items)) : d >= e

\* a non-empty list with a start and a finish that parse
Dated == ~NoItems /\ StartDaysOf(The(items)) # {} /\ FinishDaysOf(The(items)) # {}

\* the instants scaleX is asked about
Instants == {parseDate(day) : day \in ChartDays \ {NaN}} \cup ({dom.min, dom.max} \ {NaN})

\* the quotient x is the number n
Is(x, n) == x.num # NaN /\ x.num = n * x.den

\* x <= y for quotients of positive denominators
AtMost(x, y) == x.num # NaN /\ y.num # NaN /\ x.num * y.den <= y.num * x.den

DomainOfDated ==
    /\ dom.min = parseDate(Earliest - 7)
    /\ dom.max = parseDate(Latest + 7)
    /\ dom.days = (Latest + 7) - (Earliest - 7)
    /\ \A w \in Widths : Is(scaleX(dom, dom.min, w), AxisLeft)

DomainOfNone ==
    /\ dom.empty /\ dom.min = NaN /\ dom.max = NaN /\ dom.days = 0
    /\ \A w \in Widths, t \in {parseDate(day) : day \in ChartDays} : Is(scaleX(dom, t, w), 0)
    /\ dom.width # NaN => Is(dom.x, 0)

MaxAtWidth ==
    /\ \A w \in Widths : Is(scaleX(dom, dom.max, w), w)
    /\ (dom.width # NaN /\ dom.date = dom.max) => Is(dom.x, dom.width)

NonDecreasing(w) ==
    \A a \in Instants, b \in Instants :
        a <= b => AtMost(scaleX(dom, a, w), scaleX(dom, b, w))

\* C21: computeDomain of a non-empty list with a start and a finish that
\* parse returns min = earliest ES - 7 days, max = latest EF + 7 days, days =
\* the days from min to max, and a scaleX that takes min to 160, max to the
\* width given and is non-decreasing in the date; of an empty or missing
\* list it returns min = null, max = null, days = 0 and the scaleX that is 0.
C21_Domain ==
    Returned =>
        /\ Dated => (DomainOfDated /\ MaxAtWidth /\ \A w \in Widths : NonDecreasing(w))
        /\ NoItems => DomainOfNone

\* C21 amended: as above, but scaleX takes max to the width only when the
\* latest EF is later than 14 days before the earliest ES, and it is
\* non-decreasing only for a width of at least 160.
C21_DomainAmended ==
    Returned =>
        /\ Dated =>
             /\ DomainOfDated
             /\ Latest + 14 > Earliest => MaxAtWidth
             /\ \A w \in Widths : w >= AxisLeft => NonDecreasing(w)
        /\ NoItems => DomainOfNone

\* two items, the first without a start that parses; scaleX asked for max
C21_Witness ==
    /\ Returned /\ Dated
    /\ Len(The(items)) = 2 /\ The(items)[1].ES = NaN /\ The(items)[2].ES = 3
    /\ Latest = 20
    /\ dom.date = dom.max /\ dom.width = 800 /\ Is(dom.x, 800)
    /\ dom.min = parseDate(0 - 4) /\ dom.days = 31

\* ------------------------------------------------------------------------
\* The ready queue
\* ------------------------------------------------------------------------
\* the activities that wait in the queue
ReadySet == {sim.queue[i] : i \in 1..Len(sim.queue)}

\* a is taken before b: the earlier baseline start, the smaller id among equals
Before(a, b) ==
    \/ sim.task[a].baseES < sim.task[b].baseES
    \/ sim.task[a].baseES = sim.task[b].baseES /\ a <= b

\* C22: whenever the forward pass is about to dequeue, the activity at the
\* head of the queue is the ready activity with the smallest baseline early
\* start and, among those of equal start, the one with the smallest id.
C22_ReadyOrder ==
    (sim.pc = "forward" /\ sim.queue # <<>>) =>
        \A id \in ReadySet : Before(Head(sim.queue), id)

\* ------------------------------------------------------------------------
\* The backward pass without a finish limit
\* ------------------------------------------------------------------------
\* what the outgoing edges of the given types allow, read from the successors'
\* EARLY dates as lines 323-329 read them: early start for FS and SS, early
\* finish for FF and SF
EarlyLimit(id, types) ==
    SetMin({(IF rels[i].RelType \in {"FS", "SS"}
             THEN sim.task[rels[i].SuccID].ES
             ELSE sim.task[rels[i].SuccID].EF) - rels[i].Lag_d : i \in EdgesOutOf(id, types)})

\* C23: an activity without outgoing FS or FF edge has late finish
\* max(EF, projectFinish), projectFinish being the largest early finish of all
\* activities, and late start = late finish - duration; when the limit of its
\* outgoing SS and SF edges is smaller than that late start, the late start is
\* the limit and the late finish is the late start plus the duration.
C23_BackwardDefaults ==
    Done =>
        \A id \in Known :
            EdgesOutOf(id, {"FS", "FF"}) = {} =>
                LET t == sim.task[id]
                    lf == MathMax(t.EF, FinishOf(sim))
                    ls == lf - t.duration
                    limit == EarlyLimit(id, {"SS", "SF"})
                IN  IF limit < ls
                    THEN t.LS = limit /\ t.LF = limit + t.duration
                    ELSE t.LS = ls /\ t.LF = lf

\* one activity ends the project later than another that has no successor,
\* and a third is held back by an SS or SF edge
C23_Witness ==
    /\ Done
    /\ \E id \in Known :
          /\ EdgesOutOf(id, {"FS", "FF", "SS", "SF"}) = {}
          /\ sim.task[id].EF < FinishOf(sim)
          /\ sim.task[id].LF = FinishOf(sim)
    /\ \E id \in Known :
          /\ EdgesOutOf(id, {"FS", "FF"}) = {}
          /\ sim.task[id].duration > 0
          /\ EarlyLimit(id, {"SS", "SF"}) < FinishOf(sim) - sim.task[id].duration
          /\ sim.task[id].LS = EarlyLimit(id, {"SS", "SF"})

\* ------------------------------------------------------------------------
\* Free float
\* ------------------------------------------------------------------------
\* C24: with an outgoing FS or FF edge the free float is
\* max(0, round((m - EF) / day)), m the least of successor.ES - lag (FS) and
\* successor.EF - lag (FF), whatever the SS and SF edges; without one it is
\* max(0, total float); it is never negative.
C24_FreeFloat ==
    Done =>
        \A id \in Known :
            LET t == sim.task[id]
                m == EarlyLimit(id, {"FS", "FF"})
            IN  /\ EdgesOutOf(id, {"FS", "FF"}) # {} =>
                      t.FreeFloat_d = MathMax(0, MathRoundDays(m - t.EF))
                /\ EdgesOutOf(id, {"FS", "FF"}) = {} =>
                      t.FreeFloat_d = MathMax(0, t.TotalFloat_d)
                /\ t.FreeFloat_d >= 0

\* a positive free float under an FS or FF edge while an SS or SF edge of the
\* same activity would allow less, and an activity without FS or FF edge whose
\* free float is its positive total float
C24_Witness ==
    /\ Done
    /\ \E id \in Known :
          /\ EdgesOutOf(id, {"FS", "FF"}) # {}
          /\ EarlyLimit(id, {"SS", "SF"}) < EarlyLimit(id, {"FS", "FF"})
          /\ sim.task[id].FreeFloat_d > 0
    /\ \E id \in Known :
          /\ EdgesOutOf(id, {"FS", "FF"}) = {}
          /\ sim.task[id].TotalFloat_d > 0
          /\ sim.task[id].FreeFloat_d = sim.task[id].TotalFloat_d

\* ------------------------------------------------------------------------
\* Activities the forward pass never dequeues
\* ------------------------------------------------------------------------
Dequeued(id) == sim.dequeued[id] > 0

\* the constraints recorded for id: those of its edges from dequeued activities
Recorded(id) == {ForwardConstraint(i) : i \in {k \in EdgesInto(id) : Dequeued(rels[k].PredID)}}

\* C25: an activity that never reaches in-degree 0 starts at its own baseline
\* early start (the default epoch without one) and finishes its duration
\* later, whatever was recorded for it from dequeued predecessors; it records
\* no constraint for its successors, and none of them is dequeued either.
C25_CycleFallback ==
    Done =>
        /\ \A id \in Known :
              ~Dequeued(id) =>
                  /\ sim.task[id].ES = BaselineStart(id)
                  /\ sim.task[id].EF = BaselineStart(id) + sim.task[id].duration
                  /\ \A i \in EdgesOutOf(id, {"FS", "FF", "SS", "SF"}) : ~Dequeued(rels[i].SuccID)
        /\ \A id \in Known :
              sim.pending[id] = IF Recorded(id) = {} THEN NaN ELSE SetMax(Recorded(id))

\* a leftover activity with a baseline start of its own for which a dequeued
\* predecessor recorded a later start
C25_Witness ==
    /\ Done
    /\ \E id \in Known :
          /\ ~Dequeued(id)
          /\ Recorded(id) # {}
          /\ sim.pending[id] > BaselineStart(id)
          /\ rows[LastRowOf(rows, id)].ES # NaN
          /\ sim.task[id].ES = BaselineStart(id)

\* ------------------------------------------------------------------------
\* Where total float can be negative
\* ------------------------------------------------------------------------
\* the activities one edge after those of S
Successors(S) == {rels[i].SuccID : i \in {k \in KnownEdges : rels[k].PredID \in S}}

RECURSIVE ReachIn(_, _)
ReachIn(S, n) == IF n = 0 THEN S ELSE ReachIn(S \cup Successors(S), n - 1)

\* the activities reached from id along one edge or more
ReachFrom(id) == ReachIn(Successors({id}), Cardinality(Known))

OnCycle(id) == id \in ReachFrom(id)

\* on a cycle or downstream of one
AfterCycle(id) == OnCycle(id) \/ \E c \in Known : OnCycle(c) /\ id \in ReachFrom(c)

NoNegativeFloat ==
    \A id \in Known :
        /\ sim.task[id].LS >= sim.task[id].ES
        /\ sim.task[id].LF >= sim.task[id].EF
        /\ sim.task[id].TotalFloat_d >= 0

\* C29: on an acyclic network LS >= ES, LF >= EF and total float >= 0 for
\* every activity, and on any network an activity with negative total float
\* is on a cycle or downstream of one.
C29_FloatSign ==
    Done =>
        /\ Acyclic => NoNegativeFloat
        /\ \A id \in Known : sim.task[id].TotalFloat_d < 0 => AfterCycle(id)

\* C29 as it holds: on an acyclic network LS >= ES, LF >= EF and total float
\* >= 0 for every activity, and on any network an activity with negative
\* total float is on a cycle, downstream of one, or has a path of edges to an
\* activity that is.
C29_FloatSignAmended ==
    Done =>
        /\ Acyclic => NoNegativeFloat
        /\ \A id \in Known :
              sim.task[id].TotalFloat_d < 0 =>
                  AfterCycle(id) \/ \E b \in ReachFrom(id) : AfterCycle(b)

\* an acyclic chain with a lead whose activities have float to spare and none
\* below zero
C29_Witness ==
    /\ Done /\ Acyclic
    /\ Cardinality(KnownEdges) = 2
    /\ \E i \in KnownEdges : rels[i].Lag_d < 0
    /\ \E i, j \in KnownEdges : rels[i].SuccID = rels[j].PredID
    /\ \E id \in Known : EdgesOutOf(id, {"FS", "FF", "SS", "SF"}) # {} /\ sim.task[id].TotalFloat_d > 0
    /\ NoNegativeFloat

\* ------------------------------------------------------------------------
\* The order of the rows and of the edges
\* ------------------------------------------------------------------------
\* what a run computed for each activity id
ScheduleOf(s) ==
    [id \in DOMAIN s.task |->
       <<s.task[id].ES, s.task[id].EF, s.task[id].LS, s.task[id].LF,
         s.task[id].TotalFloat_d, s.task[id].FreeFloat_d>>]

\* the run on the same rows and edges taken in the orders p and q
Reordered(p, q) ==
    SimRun(SimStart(Permuted(rows, p), Permuted(rels, q), impact, now), Permuted(rows, p))

\* C30: with unique ids, the ES, EF, LS, LF, total float and free float of
\* every activity id are the same for every order of the rows and every order
\* of the edges, with or without cycles.
C30_OrderIndependent ==
    (Done /\ UniqueIds) =>
        \A p \in Bijections(Len(rows)), q \in Bijections(Len(rels)) :
            ScheduleOf(Reordered(p, q)) = ScheduleOf(sim)

\* rows out of id order, activities of equal baseline start, and two edges
\* into one activity that ask for different starts
C30_Witness ==
    /\ Done /\ UniqueIds
    /\ rows[1].ActivityID # 1
    /\ \E i, j \in KnownEdges :
          /\ rels[i].SuccID = rels[j].SuccID
          /\ rels[i].PredID # rels[j].PredID
          /\ sim.task[rels[i].PredID].baseES = sim.task[rels[j].PredID].baseES
          /\ ForwardConstraint(i) < ForwardConstraint(j)
          /\ sim.task[rels[i].SuccID].ES = ForwardConstraint(j)

\* ------------------------------------------------------------------------
\* The view and the dataset
\* ------------------------------------------------------------------------
\* C26: whenever simRows is not null it is what simulateScenario returns for
\* the current rows and edges and the active scenario (at some time of the
\* clock): no view outlives the dataset it was computed from, not even when
\* the dataset is replaced while a run waits.
C26_ViewOfCurrentData ==
    simRows # null =>
        /\ activeScenario # null
        /\ \E time \in Clock :
              The(simRows) = simulateScenario(rows, rels, The(activeScenario), time)

\* ------------------------------------------------------------------------
\* Reset and the runs in flight
\* ------------------------------------------------------------------------
\* clearScenarioView was the last handler to write the status line: no run
\* has been requested since, for a request writes the line first
ResetStands == scenarioStatus = "Scenario view reset. Showing baseline schedule."

\* C27: once clearScenarioView has run, and until a new run is requested, no
\* step puts a scenario view back: the view stays on the baseline, simRows and
\* activeScenario null, also when a run requested before the reset resumes.
C27_ResetHolds ==
    [][ResetStands => (simRows' = null /\ activeScenario' = null)]_vars

\* ------------------------------------------------------------------------
\* The view and the active scenario
\* ------------------------------------------------------------------------
\* C28: after every handler (a run's completion, reset, upload, save, delete)
\* simRows is not null exactly when activeScenario is not null.
C28_ViewIffActive == (simRows # null) <=> (activeScenario # null)

\* a view of an uploaded dataset was shown and then reset, with a scenario in
\* the library and no run waiting
C28_Witness ==
    /\ ResetStands
    /\ simRows = null /\ activeScenario = null
    /\ rows # sampleData
    /\ scenarioLibrary # <<>>
    /\ timers = {}


============================================================================
